---- MODULE Spec2Model ----
(***************************************************************************)
(* Windowed raster I/O of rasterio/_io.pyx: DatasetReaderBase.read,        *)
(* read_masks, _read, dataset_mask and DatasetWriterBase.__init__, start,  *)
(* write, over a small dataset held by the native library.                 *)
(*                                                                         *)
(* Conventions.  A Python None is the empty sequence <<>>, a present       *)
(* optional value v is <<v>>.  A pixel is a pair <<re, im>>; im is 0 for   *)
(* the seven real encodings.  An array is a record [n, h, w, d] with d a   *)
(* function on Cells(n, h, w); rows, columns and planes count from 0.  A   *)
(* 2-D array of shape (h, w) has ndim = 2 and n = 1.                       *)
(***************************************************************************)
EXTENDS Integers, Sequences, FiniteSets, TLC

VARIABLES
    hds,          \* self._hds # NULL
    closed,       \* self._closed
    init,         \* what __init__ stored: mode, _init_dtype, _init_nodata, _count
    count,        \* number of bands of the open dataset
    dtypes,       \* self.dtypes, one encoding name per band
    nodatavals,   \* self._nodatavals, one optional value per band
    colorinterp,  \* colour role per band
    msk,          \* optional per-dataset mask plane (.msk / internal mask)
    nullBands,    \* bands for which GDALGetRasterBand gives NULL
    nullMasks,    \* bands for which GDALGetMaskBand gives NULL
    pixels,       \* the dataset's pixels: band -> plane
    call,         \* the last call: operation and arguments
    ret,          \* its outcome
    ncalls,       \* the native calls it made, in order
    caller,       \* the caller's own array (out or src) when the call ended
    nwrites,      \* writes made so far
    lastw,        \* the last write: its arguments and whether it succeeded
    unraisable    \* the build drops an exception raised in a cdef function
                  \* that declares no exception value

vars == <<hds, closed, init, count, dtypes, nodatavals, colorinterp, msk,
          nullBands, nullMasks, pixels, call, ret, ncalls, caller, nwrites, lastw,
          unraisable>>

dsvars == <<count, dtypes, nodatavals, colorinterp, msk, nullBands, nullMasks>>

(***************************************************************************)
(* Bounds of the model.                                                    *)
(***************************************************************************)
Height == 2     \* dataset rows
Width == 2      \* dataset columns
Margin == 1     \* how far a requested window may reach outside the dataset
MaxWrites == 1  \* writes per behaviour

(***************************************************************************)
(* Optional values, pixels, arrays.                                        *)
(***************************************************************************)
None == <<>>
Some(v) == <<v>>
IsNone(o) == o = <<>>
Get(o) == o[1]

Cx(re, im) == <<re, im>>
Re(v) == v[1]
Im(v) == v[2]
Zero == Cx(0, 0)

Cells(n, h, w) == (0 .. n - 1) \X (0 .. h - 1) \X (0 .. w - 1)
MkArr(n, h, w, d) == [n |-> n, h |-> h, w |-> w, ndim |-> 3, d |-> d]
Const(n, h, w, v) == MkArr(n, h, w, [p \in Cells(n, h, w) |-> v])
NoArr == Const(0, 0, 0, Zero)
Max(a, b) == IF a >= b THEN a ELSE b
Min(a, b) == IF a <= b THEN a ELSE b

Range(s) == {s[i] : i \in DOMAIN s}

(***************************************************************************)
(* Encodings.  GdalTypes are the native type codes 1..11 the dispatch of   *)
(* _read and write branches on.  Bounds that do not fit the checker's      *)
(* 32-bit integers (uint32, the float and complex encodings) are capped at *)
(* the largest one, so for those encodings no modelled nodata value is out *)
(* of range.                                                               *)
(***************************************************************************)
Encodings == {"uint8", "uint16", "int16", "uint32", "int32", "float32",
              "float64", "cint16", "cint32", "complex64", "complex128"}
ComplexEncodings == {"cint16", "cint32", "complex64", "complex128"}
IntCap == (2^30 - 1) * 2 + 1

dtype_rev(dtype) ==
    CASE dtype = "uint8" -> 1
      [] dtype = "uint16" -> 2
      [] dtype = "int16" -> 3
      [] dtype = "uint32" -> 4
      [] dtype = "int32" -> 5
      [] dtype = "float32" -> 6
      [] dtype = "float64" -> 7
      [] dtype = "cint16" -> 8
      [] dtype = "cint32" -> 9
      [] dtype = "complex64" -> 10
      [] dtype = "complex128" -> 11

dtype_fwd(gdt) == CHOOSE e \in Encodings : dtype_rev(e) = gdt

\* np.iinfo(dtype).min / np.finfo(dtype).min and .max
dt_min(dtype) ==
    CASE dtype \in {"uint8", "uint16", "uint32"} -> 0
      [] dtype = "int16" -> -32768
      [] OTHER -> -IntCap
dt_max(dtype) ==
    CASE dtype = "uint8" -> 255
      [] dtype = "uint16" -> 65535
      [] dtype = "int16" -> 32767
      [] OTHER -> IntCap

\* what the native library stores when handed a value for a band or buffer
\* of that encoding: the real part saturates, the imaginary part is kept
\* only by the complex encodings
Clamp(x, dtype) == Max(dt_min(dtype), Min(dt_max(dtype), x))
Conv(v, dtype) ==
    Cx(Clamp(Re(v), dtype), IF dtype \in ComplexEncodings THEN Clamp(Im(v), dtype) ELSE 0)

(***************************************************************************)
(* The native library: GDALDatasetRasterIO and GDALRasterIO.  A request    *)
(* with an empty window or buffer is skipped and reports success; a window *)
(* outside the raster or an unknown band fails; otherwise the call returns *)
(* the result the environment chose for it (fail = <<k, code>>: the k-th   *)
(* native transfer of the operation returns code, every other one 0).      *)
(* A buffer whose size differs from the window is resampled by nearest     *)
(* neighbour.                                                              *)
(***************************************************************************)
NN(k, srcN, dstN) == ((2 * k + 1) * srcN) \div (2 * dstN)

Skipped(width, height, bufw, bufh) ==
    width < 1 \/ height < 1 \/ bufw < 1 \/ bufh < 1

InExtent(xoff, yoff, width, height) ==
    /\ xoff >= 0 /\ yoff >= 0
    /\ xoff + width <= Width /\ yoff + height <= Height

NativeRv(xoff, yoff, width, height, bufw, bufh, bandmap, calls, fail) ==
    IF Skipped(width, height, bufw, bufh) THEN 0
    ELSE IF ~InExtent(xoff, yoff, width, height) THEN 3
    ELSE IF \E i \in DOMAIN bandmap : bandmap[i] \notin 1 .. count THEN 3
    ELSE IF fail[1] = Len(calls) + 1 THEN fail[2]
    ELSE 0

CallRec(fn, mode, xoff, yoff, width, height, bandmap, rv) ==
    [fn |-> fn, mode |-> mode, xoff |-> xoff, yoff |-> yoff,
     width |-> width, height |-> height, bands |-> bandmap, rv |-> rv]

\* the last plane of the buffer written to band b, if any (a band map may
\* name a band twice: the planes go out in order)
LastPlane(bandmap, b) ==
    LET S == {i \in DOMAIN bandmap : bandmap[i] = b}
    IN IF S = {} THEN 0 ELSE CHOOSE i \in S : \A j \in S : j <= i

\* the outcome of one native transfer whose result code is rv
Moved(rv, width, height, bufw, bufh) == rv = 0 /\ ~Skipped(width, height, bufw, bufh)

\* One interleaved transfer of all the bands of bandmap.  In read mode
\* (mode = 0) got[i, r, c] is the pixel read for plane i; in write mode
\* (mode = 1) elem[i, r, c] is the element the caller's buffer holds there.
\* Returns the result code, the elements read, the dataset's pixels
\* afterwards and the extended call log.
NativeTransfer(rv, pix, mode, xoff, yoff, width, height, elem, bufw, bufh, gdt, bandmap, calls) ==
    [rv |-> rv,
     moved |-> Moved(rv, width, height, bufw, bufh) /\ mode = 0,
     got |-> IF Moved(rv, width, height, bufw, bufh) /\ mode = 0
             THEN [p \in Cells(Len(bandmap), bufh, bufw) |->
                     Conv(pix[bandmap[p[1] + 1]]
                             [<<yoff + NN(p[2], height, bufh),
                                xoff + NN(p[3], width, bufw)>>],
                          dtype_fwd(gdt))]
             ELSE <<>>,
     pix |-> IF Moved(rv, width, height, bufw, bufh) /\ mode = 1
             THEN [b \in DOMAIN pix |->
                     IF LastPlane(bandmap, b) = 0 THEN pix[b]
                     ELSE [q \in DOMAIN pix[b] |->
                             IF /\ q[1] >= yoff /\ q[1] < yoff + height
                                /\ q[2] >= xoff /\ q[2] < xoff + width
                             THEN Conv(elem[<<LastPlane(bandmap, b) - 1,
                                              NN(q[1] - yoff, bufh, height),
                                              NN(q[2] - xoff, bufw, width)>>],
                                       dtypes[b])
                             ELSE pix[b][q]]]
             ELSE pix,
     calls |-> Append(calls, CallRec("GDALDatasetRasterIO", mode, xoff, yoff, width,
                                     height, bandmap, rv))]

GDALDatasetRasterIO(pix, mode, xoff, yoff, width, height, elem, bufw, bufh, gdt, bandmap, calls, fail) ==
    NativeTransfer(NativeRv(xoff, yoff, width, height, bufw, bufh, bandmap, calls, fail),
                   pix, mode, xoff, yoff, width, height, elem, bufw, bufh, gdt,
                   bandmap, calls)

\* One transfer between a single band (here always a mask band, moved as
\* bytes) and a 2-D buffer whose elements are elem[r, c].  plane is the band
\* afterwards.
NativeBandTransfer(rv, plane, mode, xoff, yoff, width, height, elem, bufw, bufh, band, calls) ==
    [rv |-> rv,
     moved |-> Moved(rv, width, height, bufw, bufh) /\ mode = 0,
     got |-> IF Moved(rv, width, height, bufw, bufh) /\ mode = 0
             THEN [q \in (0 .. bufh - 1) \X (0 .. bufw - 1) |->
                     plane[<<yoff + NN(q[1], height, bufh),
                             xoff + NN(q[2], width, bufw)>>]]
             ELSE <<>>,
     plane |-> IF Moved(rv, width, height, bufw, bufh) /\ mode = 1
               THEN [q \in DOMAIN plane |->
                       IF /\ q[1] >= yoff /\ q[1] < yoff + height
                          /\ q[2] >= xoff /\ q[2] < xoff + width
                       THEN Conv(elem[<<NN(q[1] - yoff, bufh, height),
                                        NN(q[2] - xoff, bufw, width)>>], "uint8")
                       ELSE plane[q]]
               ELSE plane,
     calls |-> Append(calls, CallRec("GDALRasterIO", mode, xoff, yoff, width, height,
                                     <<band>>, rv))]

GDALRasterIO(plane, mode, xoff, yoff, width, height, elem, bufw, bufh, band, calls, fail) ==
    NativeBandTransfer(NativeRv(xoff, yoff, width, height, bufw, bufh, <<>>, calls, fail),
                       plane, mode, xoff, yoff, width, height, elem, bufw, bufh, band, calls)

\* GDALGetMaskFlags(band j): GMF_ALL_VALID 1, GMF_PER_DATASET 2,
\* GMF_ALPHA 4, GMF_NODATA 8
AlphaBands == {b \in 1 .. count : colorinterp[b] = "alpha"}
GDALGetMaskFlags(j) ==
    IF ~IsNone(msk) THEN 2
    ELSE IF ~IsNone(nodatavals[j]) THEN 8
    ELSE IF AlphaBands # {} /\ j \notin AlphaBands THEN 6
    ELSE 1

\* the bytes of GDALGetMaskBand(band j) whose flags are f
MaskBytes(f, pix, j) ==
    [q \in (0 .. Height - 1) \X (0 .. Width - 1) |->
        CASE f = 2 -> Get(msk)[q]
          [] f = 8 -> IF Re(pix[j][q]) = Clamp(Get(nodatavals[j]), dtypes[j])
                      THEN Zero ELSE Cx(255, 0)
          [] f = 6 -> Conv(pix[CHOOSE b \in AlphaBands : TRUE][q], "uint8")
          [] OTHER -> Cx(255, 0)]
MaskPlane(pix, j) == MaskBytes(GDALGetMaskFlags(j), pix, j)

\* bit test on the flag values above: flags & bit # 0
HasBit(flags, bit) == (flags \div bit) % 2 = 1

(***************************************************************************)
(* Uninitialised memory (np.empty): junk = <<a, b>> is what the allocator  *)
(* happens to hand out, a at even and b at odd scalar positions.           *)
(***************************************************************************)
JunkArr(n, h, w, dtype, junk) ==
    IF dtype \in ComplexEncodings
    THEN Const(n, h, w, Cx(junk[1], junk[2]))
    ELSE MkArr(n, h, w, [p \in Cells(n, h, w) |-> Cx(junk[((p[2] * w + p[3]) % 2) + 1], 0)])

SetCells(a, d) == [a EXCEPT !.d = d]

(***************************************************************************)
(* The multi-band IO functions.  Each returns [exc, rv, buf, pix, calls]:  *)
(* the exception raised ("" for none), the native result, the buffer and   *)
(* the dataset's pixels afterwards, and the call log.                      *)
(***************************************************************************)
IoResult(buffer, io) ==
    [exc |-> "", rv |-> io.rv,
     buf |-> IF io.moved THEN SetCells(buffer, io.got) ELSE buffer,
     pix |-> io.pix, calls |-> io.calls]

io_multi(gdt, mode, xoff, yoff, width, height, buffer, indexes, cnt, calls, fail) ==
    IoResult(buffer,
             GDALDatasetRasterIO(pixels, mode, xoff, yoff, width, height,
                                 buffer.d,
                                 buffer.w, buffer.h, gdt, SubSeq(indexes, 1, cnt),
                                 calls, fail))

io_multi_ubyte(mode, xoff, yoff, width, height, buffer, indexes, cnt, calls, fail) ==
    io_multi(1, mode, xoff, yoff, width, height, buffer, indexes, cnt, calls, fail)
io_multi_uint16(mode, xoff, yoff, width, height, buf, indexes, cnt, calls, fail) ==
    io_multi(2, mode, xoff, yoff, width, height, buf, indexes, cnt, calls, fail)
io_multi_int16(mode, xoff, yoff, width, height, buf, indexes, cnt, calls, fail) ==
    io_multi(3, mode, xoff, yoff, width, height, buf, indexes, cnt, calls, fail)
io_multi_uint32(mode, xoff, yoff, width, height, buf, indexes, cnt, calls, fail) ==
    io_multi(4, mode, xoff, yoff, width, height, buf, indexes, cnt, calls, fail)
io_multi_int32(mode, xoff, yoff, width, height, buf, indexes, cnt, calls, fail) ==
    io_multi(5, mode, xoff, yoff, width, height, buf, indexes, cnt, calls, fail)
io_multi_float32(mode, xoff, yoff, width, height, buf, indexes, cnt, calls, fail) ==
    io_multi(6, mode, xoff, yoff, width, height, buf, indexes, cnt, calls, fail)
io_multi_float64(mode, xoff, yoff, width, height, buf, indexes, cnt, calls, fail) ==
    io_multi(7, mode, xoff, yoff, width, height, buf, indexes, cnt, calls, fail)

\* The complex variants.  buf is a fresh scalar buffer of shape
\* (out.shape[0], 2*out.shape[2]*out.shape[1]), zeroed (np.zeros) or
\* uninitialised (np.empty).  The native call moves interleaved
\* real/imaginary pairs between the dataset and buf, in either mode; then,
\* unless retval > 0, every out[i, j, k] is overwritten from
\* buf[i, 2*(j*K+k)] and buf[i, 2*(j*K+k)+1].
ScalarBuf(out, zeroed, junk) ==
    [q \in (0 .. out.n - 1) \X (0 .. 2 * out.w * out.h - 1) |->
        IF zeroed THEN 0 ELSE junk[(q[2] % 2) + 1]]

\* the scalar buffer after the native call io
BufView(buf, K, io) ==
    IF io.moved
    THEN [q \in DOMAIN buf |->
            IF q[2] % 2 = 0 THEN Re(io.got[<<q[1], (q[2] \div 2) \div K, (q[2] \div 2) % K>>])
            ELSE Im(io.got[<<q[1], (q[2] \div 2) \div K, (q[2] \div 2) % K>>])]
    ELSE buf

Deinterleave(out, buf_view) ==
    MkArr(out.n, out.h, out.w,
          [p \in Cells(out.n, out.h, out.w) |->
              Cx(buf_view[<<p[1], 2 * (p[2] * out.w + p[3])>>],
                 buf_view[<<p[1], 2 * (p[2] * out.w + p[3]) + 1>>])])

ComplexResult(out, buf, io) ==
    [exc |-> "", rv |-> io.rv,
     buf |-> IF io.rv > 0 THEN out ELSE Deinterleave(out, BufView(buf, out.w, io)),
     pix |-> io.pix, calls |-> io.calls]

ComplexTransfer(gdt, buf, mode, xoff, yoff, width, height, out, indexes, cnt, calls, fail) ==
    ComplexResult(out, buf,
        GDALDatasetRasterIO(pixels, mode, xoff, yoff, width, height,
            [p \in Cells(out.n, out.h, out.w) |->
                Cx(buf[<<p[1], 2 * (p[2] * out.w + p[3])>>],
                   buf[<<p[1], 2 * (p[2] * out.w + p[3]) + 1>>])],
            out.w, out.h, gdt, SubSeq(indexes, 1, cnt), calls, fail))

io_multi_cint16(mode, xoff, yoff, width, height, out, indexes, cnt, calls, fail, junk) ==
    ComplexTransfer(8, ScalarBuf(out, TRUE, junk), mode, xoff, yoff, width, height,
                    out, indexes, cnt, calls, fail)
io_multi_cint32(mode, xoff, yoff, width, height, out, indexes, cnt, calls, fail, junk) ==
    ComplexTransfer(9, ScalarBuf(out, FALSE, junk), mode, xoff, yoff, width, height,
                    out, indexes, cnt, calls, fail)
io_multi_cfloat32(mode, xoff, yoff, width, height, out, indexes, cnt, calls, fail, junk) ==
    ComplexTransfer(10, ScalarBuf(out, FALSE, junk), mode, xoff, yoff, width, height,
                    out, indexes, cnt, calls, fail)
io_multi_cfloat64(mode, xoff, yoff, width, height, out, indexes, cnt, calls, fail, junk) ==
    ComplexTransfer(11, ScalarBuf(out, FALSE, junk), mode, xoff, yoff, width, height,
                    out, indexes, cnt, calls, fail)

\* io_multi_mask: band by band; a NULL band or mask band raises, a nonzero
\* native result ends the loop.  The function is declared cdef int with no
\* exception value: a build that propagates the exception makes the caller
\* raise it; a build that cannot (unraisable) reports it on stderr and the
\* function returns 0 there and then, the remaining bands unread.
MaskResult(exc, rv, buf, calls) ==
    [exc |-> exc, rv |-> rv, buf |-> buf, pix |-> pixels, calls |-> calls]

ZeroPlane == [q \in (0 .. Height - 1) \X (0 .. Width - 1) |-> Zero]

\* &buffer[i, 0, 0]: plane i of a buffer as a 2-D block
PlaneOf(buffer, i) ==
    [q \in (0 .. buffer.h - 1) \X (0 .. buffer.w - 1) |-> buffer.d[<<i, q[1], q[2]>>]]

SetPlane(buffer, i, io) ==
    IF io.moved
    THEN SetCells(buffer, [p \in DOMAIN buffer.d |->
                             IF p[1] = i THEN io.got[<<p[2], p[3]>>] ELSE buffer.d[p]])
    ELSE buffer

RECURSIVE io_multi_mask_from(_, _, _, _, _, _, _, _, _, _, _)
MaskStep(io, i, mode, xoff, yoff, width, height, buffer, indexes, cnt, fail) ==
    IF io.rv # 0
    THEN MaskResult("", io.rv, SetPlane(buffer, i, io), io.calls)
    ELSE io_multi_mask_from(i + 1, mode, xoff, yoff, width, height,
                            SetPlane(buffer, i, io), indexes, cnt, io.calls, fail)

io_multi_mask_from(i, mode, xoff, yoff, width, height, buffer, indexes, cnt, calls, fail) ==
    IF i >= cnt THEN MaskResult("", 0, buffer, calls)
    ELSE IF indexes[i + 1] \notin 1 .. count \/ indexes[i + 1] \in nullBands
    THEN MaskResult(IF unraisable THEN "" ELSE "ValueError: Null band", 0, buffer, calls)
    ELSE IF indexes[i + 1] \in nullMasks
    THEN MaskResult(IF unraisable THEN "" ELSE "ValueError: Null mask band", 0, buffer,
                    calls)
    ELSE MaskStep(GDALRasterIO(MaskPlane(pixels, indexes[i + 1]), mode, xoff, yoff,
                               width, height, PlaneOf(buffer, i), buffer.w, buffer.h,
                               indexes[i + 1], calls, fail),
                  i, mode, xoff, yoff, width, height, buffer, indexes, cnt, fail)

io_multi_mask(mode, xoff, yoff, width, height, buffer, indexes, cnt, calls, fail) ==
    io_multi_mask_from(0, mode, xoff, yoff, width, height, buffer, indexes, cnt, calls, fail)

\* io_ubyte: one band, one 2-D byte buffer (held here as a single plane)
io_ubyte(plane, mode, xoff, yoff, width, height, buffer, band, calls, fail) ==
    GDALRasterIO(plane, mode, xoff, yoff, width, height, PlaneOf(buffer, 0), buffer.w,
                 buffer.h, band, calls, fail)

(***************************************************************************)
(* Collaborators outside _io.pyx.                                          *)
(***************************************************************************)
\* self.indexes: the band indexes 1 .. count
indexes_of_dataset == [i \in 1 .. count |-> i]

\* windows.evaluate: the window as a pair of (start, stop) ranges; the
\* windows of this model are already in that form
evaluate(window, height, width) == window

\* windows.crop: clip both ranges to the dataset
crop(window, height, width) ==
    << <<Min(Max(window[1][1], 0), height), Min(Max(window[1][2], 0), height)>>,
       <<Min(Max(window[2][1], 0), width), Min(Max(window[2][2], 0), width)>> >>

\* DatasetBase.band: the band handle, or an error for a NULL handle
band_exc(j) == IF j \in nullBands THEN "ValueError: NULL band" ELSE ""

\* self.mask_flags
mask_flags == [i \in 1 .. count |-> GDALGetMaskFlags(i)]

(***************************************************************************)
(* The dispatch on the native type code shared by _read (mode 0) and       *)
(* write (mode 1).                                                         *)
(***************************************************************************)
Dispatch(gdt, mode, xoff, yoff, width, height, out, indexes, indexes_count, calls, fail, junk) ==
    CASE gdt = 1 -> io_multi_ubyte(mode, xoff, yoff, width, height, out,
                                   indexes, indexes_count, calls, fail)
      [] gdt = 2 -> io_multi_uint16(mode, xoff, yoff, width, height, out,
                                    indexes, indexes_count, calls, fail)
      [] gdt = 3 -> io_multi_int16(mode, xoff, yoff, width, height, out,
                                   indexes, indexes_count, calls, fail)
      [] gdt = 4 -> io_multi_uint32(mode, xoff, yoff, width, height, out,
                                    indexes, indexes_count, calls, fail)
      [] gdt = 5 -> io_multi_int32(mode, xoff, yoff, width, height, out,
                                   indexes, indexes_count, calls, fail)
      [] gdt = 6 -> io_multi_float32(mode, xoff, yoff, width, height, out,
                                     indexes, indexes_count, calls, fail)
      [] gdt = 7 -> io_multi_float64(mode, xoff, yoff, width, height, out,
                                     indexes, indexes_count, calls, fail)
      [] gdt = 8 -> io_multi_cint16(mode, xoff, yoff, width, height, out,
                                    indexes, indexes_count, calls, fail, junk)
      [] gdt = 9 -> io_multi_cint32(mode, xoff, yoff, width, height, out,
                                    indexes, indexes_count, calls, fail, junk)
      [] gdt = 10 -> io_multi_cfloat32(mode, xoff, yoff, width, height, out,
                                       indexes, indexes_count, calls, fail, junk)
      [] gdt = 11 -> io_multi_cfloat64(mode, xoff, yoff, width, height, out,
                                       indexes, indexes_count, calls, fail, junk)

(***************************************************************************)
(* DatasetReaderBase._read                                                 *)
(***************************************************************************)
\* the native result not tested at all
RetvalIgnored(retval) == ""
RetvalExc(retval) ==
    IF retval \in {1, 2, 3} THEN "IOError: Read or write failed"
    ELSE IF retval = 4 THEN "ValueError: NULL band"
    ELSE ""

\* the warning tied to the per-dataset flag of the bands, not to their nodata flag
PerDatasetWarnings ==
    IF count = 4 /\ colorinterp[4] = "alpha"
    THEN Cardinality({i \in 1 .. count : HasBit(mask_flags[i], 2)})
    ELSE 0
\* the number of NodataShadowWarning a mask read issues
ShadowWarnings ==
    IF count = 4 /\ colorinterp[4] = "alpha"
    THEN Cardinality({i \in 1 .. count : HasBit(mask_flags[i], 8)})
    ELSE 0

ReadResult(io, warns) ==
    [exc |-> IF io.exc # "" THEN io.exc ELSE RetvalExc(io.rv),
     out |-> io.buf, calls |-> io.calls, warns |-> warns]

\* the IO window of _read and write: <<xoff, yoff, width, height>>
IoWindowOf(w) == <<w[2][1], w[1][1], w[2][2] - w[2][1], w[1][2] - w[1][1]>>
IoWindow(window) ==
    IF window # None THEN IoWindowOf(evaluate(Get(window), Height, Width))
    ELSE <<0, 0, Width, Height>>

ReadWindow(xywh, indexes, out, dtype, masks, calls, fail, junk) ==
    IF masks
    THEN ReadResult(io_multi_mask(0, xywh[1], xywh[2], xywh[3], xywh[4], out, indexes,
                                  Len(indexes), calls, fail),
                    ShadowWarnings)
    ELSE ReadResult(Dispatch(dtype_rev(dtype), 0, xywh[1], xywh[2], xywh[3], xywh[4],
                             out, indexes, Len(indexes), calls, fail, junk),
                    0)

_read(indexes, out, window, dtype, masks, calls, fail, junk) ==
    IF ~hds
    THEN [exc |-> "ValueError: can't read closed raster file", out |-> out,
          calls |-> calls, warns |-> 0]
    ELSE IF out.ndim # 3
    THEN \* the io_multi functions take 3-D typed buffers
         [exc |-> "ValueError: Buffer has wrong number of dimensions", out |-> out,
          calls |-> calls, warns |-> IF masks THEN ShadowWarnings ELSE 0]
    ELSE ReadWindow(IoWindow(window), indexes, out, dtype, masks, calls, fail, junk)

(***************************************************************************)
(* DatasetReaderBase.read.  The indexes argument is None, an int or a      *)
(* list; out is None or an array with its dtype; out_shape is None or a    *)
(* 2- or 3-tuple; window is None or ((row_start, row_stop), (col_start,    *)
(* col_stop)).  The result records the exception raised ("" for none), the *)
(* array returned, whether it is a masked array (mk = "none" for a plain   *)
(* array, "nomask" for np.ma.nomask, "mask" with the mask in mask), its    *)
(* fill_value, the native calls made, the warnings issued and the caller's *)
(* own array afterwards.                                                   *)
(***************************************************************************)
NoIndexes == [kind |-> "none", v |-> <<>>]
IntIndex(k) == [kind |-> "int", v |-> <<k>>]
ListIndex(l) == [kind |-> "list", v |-> l]

Indexes(indexes) == IF indexes.kind = "none" THEN indexes_of_dataset ELSE indexes.v

\* out.shape = (1,) + out.shape for an int index and a 2-D out
Reshape3(indexes, out) ==
    IF indexes.kind = "int" /\ out # None /\ Get(out).arr.ndim = 2
    THEN Some([Get(out) EXCEPT !.arr.ndim = 3])
    ELSE out

Shape0(a) == IF a.ndim = 3 THEN a.n ELSE a.h
Shape3(shape) == IF Len(shape) = 2 THEN <<1>> \o shape ELSE shape
Squeeze(return2d, a) == IF return2d THEN [a EXCEPT !.ndim = 2] ELSE a

\* only the first band's encoding collected
FirstDtypeOnly(idx) == IF idx = <<>> THEN {} ELSE {dtypes[idx[1]]}
check_dtypes(idx) == {dtypes[idx[i]] : i \in DOMAIN idx}
ReadDtype(idx) ==
    IF check_dtypes(idx) = {} THEN dtypes[1] ELSE CHOOSE d \in check_dtypes(idx) : TRUE

\* the nodata value used as it is
UnclampedNodata(ndv, dtype) == ndv
\* the nodata value moved to the closest value the band's type represents
ClampNodata(ndv, dtype) ==
    IF ndv < dt_min(dtype) THEN dt_min(dtype)
    ELSE IF ndv > dt_max(dtype) THEN dt_max(dtype)
    ELSE ndv

ReadNodatavals(idx) ==
    [i \in DOMAIN idx |->
        IF IsNone(nodatavals[idx[i]]) THEN None
        ELSE Some(ClampNodata(Get(nodatavals[idx[i]]), dtypes[idx[i]]))]

\* the window read uses: cropped to the dataset unless boundless
ReadWindowOf(window, boundless) ==
    IF window # None /\ ~boundless
    THEN Some(crop(evaluate(Get(window), Height, Width), Height, Width))
    ELSE window

WinShape(n, window) ==
    IF window # None
    THEN <<n, Get(window)[1][2] - Get(window)[1][1], Get(window)[2][2] - Get(window)[2][1]>>
    ELSE <<n, Height, Width>>

\* set fill_value only if the read bands share a single nodata value
\* the first band's nodata value as the fill value, whatever the other bands have
FirstNodata(ndvs) == ndvs[1]
FillValue(ndvs) == IF Cardinality(Range(ndvs)) = 1 THEN ndvs[1] ELSE None

\* np.zeros(win_shape, dtype), each plane filled with its nodata value
Prefilled(win_shape, ndvs) ==
    MkArr(win_shape[1], win_shape[2], win_shape[3],
          [p \in Cells(win_shape[1], win_shape[2], win_shape[3]) |->
              IF IsNone(ndvs[p[1] + 1]) THEN Zero ELSE Cx(Get(ndvs[p[1] + 1]), 0)])

\* the validity bytes taken as the mask, not inverted
NotInverted(a) ==
    SetCells(a, [p \in DOMAIN a.d |-> IF a.d[p] = Zero THEN Zero ELSE Cx(1, 0)])
\* ~mask.astype('bool')
Invert(a) ==
    SetCells(a, [p \in DOMAIN a.d |-> IF a.d[p] = Zero THEN Cx(1, 0) ELSE Zero])
AllMasked(a) == SetCells(a, [p \in DOMAIN a.d |-> Cx(1, 0)])

\* int(round(num / den)) and int(num / den) for num >= 0, den > 0
PyRound(num, den) ==
    IF 2 * (num % den) > den THEN num \div den + 1
    ELSE IF 2 * (num % den) < den THEN num \div den
    ELSE IF (num \div den) % 2 = 0 THEN num \div den
    ELSE num \div den + 1
PyInt(num, den) == num \div den

\* the requested window taken as the overlap, not clamped to the dataset
Unclamped(window) == window
Overlap(window) ==
    << <<Max(Min(window[1][1], Height), 0), Max(Min(window[1][2], Height), 0)>>,
       <<Max(Min(window[2][1], Width), 0), Max(Min(window[2][2], Width), 0)>> >>

\* dst[roff:roff+data_h, coff:coff+data_w] = src, plane by plane
SliceLen(off, len, size) == Max(0, Min(off + len, size) - Min(off, size))
BlockFits(dst, src, roff, coff, data_h, data_w) ==
    \/ Min(dst.n, src.n) = 0
    \/ /\ src.h \in {SliceLen(roff, data_h, dst.h), 1}
       /\ src.w \in {SliceLen(coff, data_w, dst.w), 1}
\* the block placed at the origin of the output whatever the offsets are
BlockCopyAtOrigin(dst, src, roff, coff, data_h, data_w) ==
    SetCells(dst,
        [p \in DOMAIN dst.d |->
            IF p[1] < src.n /\ p[2] < data_h /\ p[3] < data_w
            THEN src.d[<<p[1], IF src.h = 1 THEN 0 ELSE p[2],
                               IF src.w = 1 THEN 0 ELSE p[3]>>]
            ELSE dst.d[p]])
BlockCopy(dst, src, roff, coff, data_h, data_w) ==
    SetCells(dst,
        [p \in DOMAIN dst.d |->
            IF /\ p[1] < src.n
               /\ p[2] >= roff /\ p[2] < roff + data_h
               /\ p[3] >= coff /\ p[3] < coff + data_w
            THEN src.d[<<p[1], IF src.h = 1 THEN 0 ELSE p[2] - roff,
                               IF src.w = 1 THEN 0 ELSE p[3] - coff>>]
            ELSE dst.d[p]])

Result(return2d, arr, mk, mask, fill, calls, warns, hasOut) ==
    [exc |-> "", arr |-> Squeeze(return2d, arr), mk |-> mk,
     mask |-> IF mk = "mask" THEN Squeeze(return2d, mask) ELSE NoArr,
     fill |-> fill, calls |-> calls, warns |-> warns,
     own |-> IF ~hasOut THEN None
             ELSE IF mk = "none" THEN Some(Squeeze(return2d, arr))
             ELSE Some(arr)]

Raise(exc, calls, warns, out) ==
    [exc |-> exc, arr |-> NoArr, mk |-> "none", mask |-> NoArr, fill |-> None,
     calls |-> calls, warns |-> warns,
     own |-> IF out = None THEN None ELSE Some(Get(out).arr)]

\* lines 803-818: the mask of a direct masked read
MaskedDone(r1, r2, return2d, ndvs, hasOut, out) ==
    IF r2.exc # "" THEN Raise(r2.exc, r2.calls, r2.warns, out)
    ELSE Result(return2d, r1.out, "mask", Invert(r2.out), FillValue(ndvs), r2.calls,
                r2.warns, hasOut)

\* lines 800-818
DirectDone(r1, idx, return2d, window, ndvs, masked, hasOut, out, fail, junk) ==
    IF r1.exc # "" THEN Raise(r1.exc, r1.calls, r1.warns, out)
    ELSE IF ~masked
    THEN Result(return2d, r1.out, "none", NoArr, None, r1.calls, r1.warns, hasOut)
    ELSE IF \A j \in 1 .. count : HasBit(mask_flags[j], 1)
    THEN Result(return2d, r1.out, "nomask", NoArr, FillValue(ndvs), r1.calls, r1.warns,
                hasOut)
    ELSE MaskedDone(r1,
                    _read(idx, JunkArr(r1.out.n, r1.out.h, r1.out.w, "uint8", junk),
                          window, "uint8", TRUE, r1.calls, fail, junk),
                    return2d, ndvs, hasOut, out)

\* lines 861-887: the block read for the overlap goes into the output window
BoundlessPlace(data, mask, calls, warns, roff, coff, data_h, data_w, return2d, out2, ndvs, masked, hasOut, out) ==
    IF ~BlockFits(out2, data, roff, coff, data_h, data_w)
    THEN Raise("ValueError: could not broadcast input array", calls, warns, out)
    ELSE IF masked
    THEN Result(return2d, BlockCopy(out2, data, roff, coff, data_h, data_w), "mask",
                BlockCopy(AllMasked(out2), mask, roff, coff, data_h, data_w),
                FillValue(ndvs), calls, warns, hasOut)
    ELSE Result(return2d, BlockCopy(out2, data, roff, coff, data_h, data_w), "none",
                NoArr, None, calls, warns, hasOut)

\* lines 841-850
BoundlessMask(d1, d2, roff, coff, data_h, data_w, return2d, out2, ndvs, hasOut, out) ==
    IF d2.exc # "" THEN Raise(d2.exc, d2.calls, d2.warns, out)
    ELSE BoundlessPlace(d1.out, Invert(d2.out), d2.calls, d2.warns, roff, coff, data_h,
                        data_w, return2d, out2, ndvs, TRUE, hasOut, out)

BoundlessData(d1, overlap, roff, coff, data_h, data_w, idx, return2d, out2, ndvs, masked, hasOut, out, fail, junk) ==
    IF d1.exc # "" THEN Raise(d1.exc, d1.calls, d1.warns, out)
    ELSE IF masked
    THEN BoundlessMask(d1,
                       _read(idx, JunkArr(Len(idx), data_h, data_w, "uint8", junk),
                             Some(overlap), "uint8", TRUE, d1.calls, fail, junk),
                       roff, coff, data_h, data_w, return2d, out2, ndvs, hasOut, out)
    ELSE BoundlessPlace(d1.out, NoArr, d1.calls, d1.warns, roff, coff, data_h, data_w,
                        return2d, out2, ndvs, FALSE, hasOut, out)

\* lines 829-839: data = np.empty(...); data = self._read(indexes, data, overlap, dtype)
BoundlessRead(overlap, roff, coff, data_h, data_w, idx, return2d, out2, dtype, ndvs, masked, hasOut, out, fail, junk) ==
    BoundlessData(_read(idx, JunkArr(Len(idx), data_h, data_w, dtype, junk),
                        Some(overlap), dtype, FALSE, <<>>, fail, junk),
                  overlap, roff, coff, data_h, data_w, idx, return2d, out2, ndvs,
                  masked, hasOut, out, fail, junk)

\* lines 820-887
Boundless(idx, return2d, out2, window, dtype, ndvs, win_shape, masked, hasOut, out, fail, junk) ==
    IF Overlap(window) = << <<0, 0>>, <<0, 0>> >>
    THEN IF masked
         THEN Result(return2d, out2, "mask", AllMasked(out2), FillValue(ndvs), <<>>, 0,
                     hasOut)
         ELSE Result(return2d, out2, "none", NoArr, None, <<>>, 0, hasOut)
    ELSE IF win_shape[2] = 0 \/ win_shape[3] = 0
    THEN Raise("ZeroDivisionError: float division by zero", <<>>, 0, out)
    ELSE BoundlessRead(
            Overlap(window),
            IF window[1][1] < 0 THEN PyInt((-window[1][1]) * out2.h, win_shape[2]) ELSE 0,
            IF window[2][1] < 0 THEN PyInt((-window[2][1]) * out2.w, win_shape[3]) ELSE 0,
            PyRound((Overlap(window)[1][2] - Overlap(window)[1][1]) * out2.h, win_shape[2]),
            PyRound((Overlap(window)[2][2] - Overlap(window)[2][1]) * out2.w, win_shape[3]),
            idx, return2d, out2, dtype, ndvs, masked, hasOut, out, fail, junk)

\* lines 798-887
ReadInto(idx, return2d, out2, window, dtype, ndvs, win_shape, masked, boundless, hasOut, out, fail, junk) ==
    IF ~boundless \/ window = None
    THEN DirectDone(_read(idx, out2, window, dtype, FALSE, <<>>, fail, junk),
                    idx, return2d, window, ndvs, masked, hasOut, out, fail, junk)
    ELSE Boundless(idx, return2d, out2, Get(window), dtype, ndvs, win_shape, masked,
                   hasOut, out, fail, junk)

\* lines 752-757 and 791-796: the caller's array, np.empty(out_shape, dtype), or
\* np.zeros(win_shape, dtype) filled with the nodata values
OutArray(out, out_shape, win_shape, dtype, ndvs, junk) ==
    IF out # None THEN Get(out).arr
    ELSE IF out_shape # None
    THEN JunkArr(Shape3(Get(out_shape))[1], Shape3(Get(out_shape))[2],
                 Shape3(Get(out_shape))[3], dtype, junk)
    ELSE Prefilled(win_shape, ndvs)

\* lines 736-796
ReadTyped(idx, return2d, out, window, dtype, ndvs, win_shape, masked, out_shape, boundless, fail, junk) ==
    IF out # None /\ out_shape # None
    THEN Raise("ValueError: out and out_shape are exclusive", <<>>, 0, out)
    ELSE IF out # None /\ Get(out).dtype # dtype
    THEN Raise("ValueError: the array's dtype does not match the file's dtype", <<>>, 0, out)
    ELSE IF \/ out # None /\ Shape0(Get(out).arr) # win_shape[1]
            \/ out_shape # None /\ Shape3(Get(out_shape))[1] # win_shape[1]
    THEN Raise("ValueError: 'out' shape does not match window shape", <<>>, 0, out)
    ELSE IF masked /\ \E j \in 1 .. count : band_exc(j) # ""
    THEN Raise("ValueError: NULL band", <<>>, 0, out)
    ELSE ReadInto(idx, return2d, OutArray(out, out_shape, win_shape, dtype, ndvs, junk),
                  window, dtype, ndvs, win_shape, masked, boundless, out # None, out,
                  fail, junk)

\* lines 686-734; self._nodatavals is the empty list __init__ made until
\* start has filled it (line 708)
ReadIndexed(idx, return2d, out, window, masked, out_shape, boundless, fail, junk) ==
    IF idx = <<>>
    THEN Raise("ValueError: No indexes to read", <<>>, 0, out)
    ELSE IF \E i \in DOMAIN idx : idx[i] \notin Range(indexes_of_dataset)
    THEN Raise("IndexError: band index out of range", <<>>, 0, out)
    ELSE IF \E i \in DOMAIN idx : idx[i] \notin DOMAIN nodatavals
    THEN Raise("IndexError: list index out of range", <<>>, 0, out)
    ELSE IF Cardinality(check_dtypes(idx)) > 1
    THEN Raise("ValueError: more than one 'dtype' found", <<>>, 0, out)
    ELSE ReadTyped(idx, return2d, out, ReadWindowOf(window, boundless), ReadDtype(idx),
                   ReadNodatavals(idx),
                   WinShape(Len(idx), ReadWindowOf(window, boundless)),
                   masked, out_shape, boundless, fail, junk)

read(indexes, out, window, masked, out_shape, boundless, fail, junk) ==
    ReadIndexed(Indexes(indexes), indexes.kind = "int", Reshape3(indexes, out), window,
                masked, out_shape, boundless, fail, junk)

(***************************************************************************)
(* DatasetReaderBase.read_masks.  The result is [exc, arr, calls, warns,   *)
(* own]; calls extends the log it was given.                               *)
(***************************************************************************)
MResult(return2d, arr, calls, warns, hasOut) ==
    [exc |-> "", arr |-> Squeeze(return2d, arr), calls |-> calls, warns |-> warns,
     own |-> IF hasOut THEN Some(Squeeze(return2d, arr)) ELSE None]

MRaise(exc, calls, warns, out) ==
    [exc |-> exc, arr |-> NoArr, calls |-> calls, warns |-> warns,
     own |-> IF out = None THEN None ELSE Some(Get(out).arr)]

\* lines 1020-1032
MasksPlace(d, roff, coff, return2d, out2, hasOut, out) ==
    IF d.exc # "" THEN MRaise(d.exc, d.calls, d.warns, out)
    ELSE IF ~BlockFits(out2, d.out, roff, coff, d.out.h, d.out.w)
    THEN MRaise("ValueError: could not broadcast input array", d.calls, d.warns, out)
    ELSE MResult(return2d, BlockCopy(out2, d.out, roff, coff, d.out.h, d.out.w),
                 d.calls, d.warns, hasOut)

\* lines 1009-1028; roff and coff are computed from the buffer read
MasksRead(overlap, data_h, data_w, window, win_shape, idx, return2d, out2, hasOut, out, calls, fail, junk) ==
    MasksPlace(_read(idx, JunkArr(Len(idx), data_h, data_w, "uint8", junk),
                     Some(overlap), "uint8", TRUE, calls, fail, junk),
               IF window[1][1] < 0
               THEN PyInt(win_shape[2] * out2.h, win_shape[2]) - data_h ELSE 0,
               IF window[2][1] < 0
               THEN PyInt(win_shape[3] * out2.w, win_shape[3]) - data_w ELSE 0,
               return2d, out2, hasOut, out)

\* lines 999-1032
MasksBoundless(idx, return2d, out2, window, win_shape, hasOut, out, calls, fail, junk) ==
    IF Overlap(window) = << <<0, 0>>, <<0, 0>> >>
    THEN MResult(return2d, out2, calls, 0, hasOut)
    ELSE IF win_shape[2] = 0 \/ win_shape[3] = 0
    THEN MRaise("ZeroDivisionError: float division by zero", calls, 0, out)
    ELSE MasksRead(Overlap(window),
                   PyInt((Overlap(window)[1][2] - Overlap(window)[1][1]) * out2.h,
                         win_shape[2]),
                   PyInt((Overlap(window)[2][2] - Overlap(window)[2][1]) * out2.w,
                         win_shape[3]),
                   window, win_shape, idx, return2d, out2, hasOut, out, calls, fail, junk)

MasksDirect(r, return2d, hasOut, out) ==
    IF r.exc # "" THEN MRaise(r.exc, r.calls, r.warns, out)
    ELSE MResult(return2d, r.out, r.calls, r.warns, hasOut)

\* lines 974-991: the caller's array, np.zeros(out_shape) or np.zeros(win_shape)
MasksOut(out, out_shape, win_shape) ==
    IF out # None THEN Get(out).arr
    ELSE IF out_shape # None
    THEN Const(Shape3(Get(out_shape))[1], Shape3(Get(out_shape))[2],
               Shape3(Get(out_shape))[3], Zero)
    ELSE Const(win_shape[1], win_shape[2], win_shape[3], Zero)

\* lines 955-1032
MasksTyped(idx, return2d, out, window, win_shape, out_shape, boundless, calls, fail, junk) ==
    IF out # None /\ out_shape # None
    THEN MRaise("ValueError: out and out_shape are exclusive", calls, 0, out)
    ELSE IF out # None /\ Get(out).dtype # "uint8"
    THEN MRaise("ValueError: the out array's dtype does not match 'uint8'", calls, 0, out)
    ELSE IF \/ out # None /\ Shape0(Get(out).arr) # win_shape[1]
            \/ out_shape # None /\ Shape3(Get(out_shape))[1] # win_shape[1]
    THEN MRaise("ValueError: 'out' shape does not match window shape", calls, 0, out)
    ELSE IF ~boundless \/ window = None
    THEN MasksDirect(_read(idx, MasksOut(out, out_shape, win_shape), window, "uint8",
                           TRUE, calls, fail, junk),
                     return2d, out # None, out)
    ELSE MasksBoundless(idx, return2d, MasksOut(out, out_shape, win_shape), Get(window),
                        win_shape, out # None, out, calls, fail, junk)

\* lines 944-953
MasksIndexed(idx, return2d, out, window, out_shape, boundless, calls, fail, junk) ==
    IF idx = <<>>
    THEN MRaise("ValueError: No indexes to read", calls, 0, out)
    ELSE MasksTyped(idx, return2d, out, ReadWindowOf(window, boundless),
                    WinShape(Len(idx), ReadWindowOf(window, boundless)),
                    out_shape, boundless, calls, fail, junk)

read_masks(indexes, out, out_shape, window, boundless, calls, fail, junk) ==
    MasksIndexed(Indexes(indexes), indexes.kind = "int", Reshape3(indexes, out), window,
                 out_shape, boundless, calls, fail, junk)

(***************************************************************************)
(* DatasetReaderBase.dataset_mask                                          *)
(***************************************************************************)
\* a | b on mask bytes, which are 0 or 255 here
BitOr(a, b) == Cx(Max(Re(a), Re(b)), 0)
OrArr(a, b) == SetCells(a, [p \in DOMAIN a.d |-> BitOr(a.d[p], b.d[p])])

\* mask = mask | self.read_masks(i, **kwargs) for i in range(start, stop)
RECURSIVE OrMasks(_, _, _, _, _, _, _)
OrStep(acc, m, i, stop, window, boundless, fail, junk) ==
    IF m.exc # "" THEN [m EXCEPT !.warns = acc.warns + m.warns]
    ELSE OrMasks([m EXCEPT !.arr = OrArr(acc.arr, m.arr), !.warns = acc.warns + m.warns],
                 i + 1, stop, window, boundless, fail, junk)

OrMasks(acc, i, stop, window, boundless, fail, junk) ==
    IF acc.exc # "" \/ i >= stop THEN acc
    ELSE OrStep(acc, read_masks(IntIndex(i), None, None, window, boundless, acc.calls,
                                fail, junk),
                i, stop, window, boundless, fail, junk)

\* the RGBA rule tried before the per-dataset flag
dataset_mask_RgbaFirst(window, boundless, fail, junk) ==
    IF count = 4 /\ colorinterp[1] = "red"
    THEN read_masks(IntIndex(4), None, None, window, boundless, <<>>, fail, junk)
    ELSE IF HasBit(mask_flags[1], 2)
    THEN read_masks(IntIndex(1), None, None, window, boundless, <<>>, fail, junk)
    ELSE OrMasks(read_masks(IntIndex(1), None, None, window, boundless, <<>>, fail, junk),
                 1, count, window, boundless, fail, junk)
dataset_mask(window, boundless, fail, junk) ==
    IF HasBit(mask_flags[1], 2)
    THEN read_masks(IntIndex(1), None, None, window, boundless, <<>>, fail, junk)
    ELSE IF count = 4 /\ colorinterp[1] = "red"
    THEN read_masks(IntIndex(4), None, None, window, boundless, <<>>, fail, junk)
    ELSE OrMasks(read_masks(IntIndex(1), None, None, window, boundless, <<>>, fail, junk),
                 1, count, window, boundless, fail, junk)

(***************************************************************************)
(* DatasetReaderBase.read_mask (deprecated): the mask band of band 1 read  *)
(* into out, or into a new uninitialised array of the window's shape.  The *)
(* result is [exc, none, arr, calls]; none says that None was returned.    *)
(* The result of io_ubyte is not looked at.                                *)
(***************************************************************************)
read_mask(out, window, fail, junk) ==
    LET xywh == IoWindow(window)
        buffer == IF out # None THEN Get(out).arr
                  ELSE [JunkArr(1, xywh[4], xywh[3], "uint8", junk) EXCEPT !.ndim = 2]
        io == io_ubyte(MaskPlane(pixels, 1), 0, xywh[1], xywh[2], xywh[3], xywh[4],
                       buffer, 1, <<>>, fail)
    IN  IF band_exc(1) # ""
        THEN [exc |-> band_exc(1), none |-> FALSE, arr |-> NoArr, calls |-> <<>>]
        ELSE IF 1 \in nullMasks
        THEN [exc |-> "", none |-> TRUE, arr |-> NoArr, calls |-> <<>>]
        ELSE [exc |-> "", none |-> FALSE, arr |-> SetPlane(buffer, 0, io),
              calls |-> io.calls]

(***************************************************************************)
(* DatasetWriterBase.write.  src is [arr, dtype]; the result is [exc, pix, *)
(* calls, own]: the dataset's pixels afterwards and the caller's array.    *)
(***************************************************************************)
WRaise(exc, src) ==
    [exc |-> exc, pix |-> pixels, calls |-> <<>>, own |-> src.arr]

\* lines 1690-1693; the array handed to the native layer is the caller's
\* own unless an int index made write wrap it in a new one
WriteDone(io, src, isCopy) ==
    [exc |-> RetvalExc(io.rv), pix |-> io.pix, calls |-> io.calls,
     own |-> IF isCopy THEN src.arr ELSE io.buf]

\* lines 1606-1688
WriteChecked(idx, src3, src, isCopy, window, dtype, fail, junk) ==
    IF \E i \in DOMAIN idx : idx[i] \notin Range(indexes_of_dataset)
    THEN WRaise("IndexError: band index out of range", src)
    ELSE IF Cardinality(check_dtypes(idx)) > 1
    THEN WRaise("ValueError: more than one 'dtype' found", src)
    ELSE IF src.dtype # dtype
    THEN WRaise("ValueError: the array's dtype does not match the file's dtype", src)
    ELSE WriteDone(Dispatch(dtype_rev(dtype), 1, IoWindow(window)[1], IoWindow(window)[2],
                            IoWindow(window)[3], IoWindow(window)[4], src3, idx, Len(idx),
                            <<>>, fail, junk),
                   src, isCopy)

\* lines 1597-1604; np.array([src]) adds a leading axis of length 1
WriteShaped(idx, src3, ndim3, src, isCopy, window, fail, junk) ==
    IF ndim3 # 3 \/ Shape0(src3) # Len(idx)
    THEN WRaise("ValueError: Source shape is inconsistent with given indexes", src)
    ELSE WriteChecked(idx, src3, src, isCopy, window, ReadDtype(idx), fail, junk)

write(src, indexes, window, fail, junk) ==
    IF ~hds THEN WRaise("ValueError: can't write to closed raster file", src)
    ELSE IF indexes.kind = "int"
    THEN WriteShaped(Indexes(indexes), [src.arr EXCEPT !.ndim = 3], src.arr.ndim + 1,
                     src, TRUE, window, fail, junk)
    ELSE WriteShaped(Indexes(indexes), src.arr, src.arr.ndim, src, FALSE, window, fail,
                     junk)

(***************************************************************************)
(* DatasetWriterBase.write_mask.  mask_array is [kind, arr] with kind      *)
(* "True", "False", "bool" or "uint8"; created is whether                  *)
(* GDALCreateMaskBand gave a per-dataset mask band, fresh the byte a newly *)
(* created band holds.  The result is [exc, msk, calls].  Neither the      *)
(* result of GDALFillRaster nor that of io_ubyte is looked at.             *)
(***************************************************************************)
write_mask(mask_array, window, created, fresh, fail) ==
    LET xywh == IoWindow(window)
        band == IF IsNone(msk) THEN [q \in DOMAIN ZeroPlane |-> fresh] ELSE Get(msk)
        array == IF mask_array.kind = "bool"
                 THEN SetCells(mask_array.arr,
                               [p \in DOMAIN mask_array.arr.d |->
                                   Cx(255 * Re(mask_array.arr.d[p]), 0)])
                 ELSE mask_array.arr
        io == io_ubyte(band, 1, xywh[1], xywh[2], xywh[3], xywh[4], array, 1, <<>>, fail)
        fill == CallRec("GDALFillRaster", 1, 0, 0, Width, Height, <<1>>, 0)
    IN  IF band_exc(1) # "" THEN [exc |-> band_exc(1), msk |-> msk, calls |-> <<>>]
        ELSE IF ~created
        THEN [exc |-> "RasterioIOError: Failed to get mask.", msk |-> msk, calls |-> <<>>]
        ELSE IF mask_array.kind = "True"
        THEN [exc |-> "", msk |-> Some([q \in DOMAIN ZeroPlane |-> Cx(255, 0)]),
              calls |-> <<fill>>]
        ELSE IF mask_array.kind = "False"
        THEN [exc |-> "", msk |-> Some(ZeroPlane), calls |-> <<fill>>]
        ELSE [exc |-> "", msk |-> Some(io.plane), calls |-> io.calls]

(***************************************************************************)
(* DatasetWriterBase.start and the range test it applies to the nodata     *)
(* value given at creation.                                                *)
(***************************************************************************)
\* every value accepted
AnyValueInRange(value, dtype) == TRUE
in_dtype_range(value, dtype) == dt_min(dtype) <= value /\ value <= dt_max(dtype)

\* a dataset as the native library holds it
Plane0(b, dtype) ==
    [q \in (0 .. Height - 1) \X (0 .. Width - 1) |->
        Conv(Cx((b - 1) * 10 + q[1] * Width + q[2] + 1, (b - 1) * 10 + q[1] * Width + q[2] + 2),
             dtype)]

\* lines 1394-1417 and 1451 for mode 'w': GDALCreate, the nodata test, the
\* broadcast of the nodata value to every band, _closed = False
StartCreate(created, nb) ==
    /\ count' = IF created THEN init.count ELSE count
    /\ dtypes' = IF created THEN [i \in 1 .. init.count |-> init.dtype] ELSE dtypes
    /\ colorinterp' = IF created THEN [i \in 1 .. init.count |-> "gray"] ELSE colorinterp
    /\ pixels' = IF created THEN [i \in 1 .. init.count |-> ZeroPlane] ELSE pixels
    /\ nullBands' = IF created THEN nb ELSE nullBands
    /\ hds' = created
    /\ UNCHANGED <<msk, nullMasks>>
    /\ IF ~created
       THEN /\ ret' = [exc |-> "CPLE: dataset creation failed"]
            /\ UNCHANGED <<closed, nodatavals>>
       ELSE IF init.nodata # None /\ ~in_dtype_range(Get(init.nodata), init.dtype)
       THEN /\ ret' = [exc |-> "ValueError: Given nodata value is beyond the valid range of its data type"]
            /\ nodatavals' = [i \in 1 .. init.count |-> None]
            /\ UNCHANGED closed
       ELSE IF init.nodata # None /\ nb # {}
       THEN /\ ret' = [exc |-> "ValueError: NULL band"]
            /\ nodatavals' = [i \in 1 .. init.count |->
                                IF \A j \in nb : i < j THEN init.nodata ELSE None]
            /\ UNCHANGED closed
       ELSE /\ ret' = [exc |-> ""]
            /\ nodatavals' = [i \in 1 .. init.count |-> init.nodata]
            /\ closed' = FALSE

\* lines 1424-1430 and 1451 for mode 'r+': GDALOpen of an existing dataset
StartOpen(opened, existing) ==
    /\ hds' = opened
    /\ IF opened
       THEN /\ count' = existing.count /\ dtypes' = existing.dtypes
            /\ nodatavals' = existing.nodatavals /\ colorinterp' = existing.colorinterp
            /\ msk' = existing.msk /\ nullBands' = existing.nullBands
            /\ nullMasks' = existing.nullMasks /\ pixels' = existing.pixels
            /\ closed' = FALSE
            /\ ret' = [exc |-> ""]
       ELSE /\ ret' = [exc |-> "RasterioIOError: open failed"]
            /\ UNCHANGED <<closed, count, dtypes, nodatavals, colorinterp, msk,
                           nullBands, nullMasks, pixels>>

(***************************************************************************)
(* The state machine.  call is the last operation with its arguments, ret  *)
(* its outcome.  A read leaves the dataset as it was, so reads are taken   *)
(* from the states that construction, start and write reach; so are the    *)
(* mask writes, which leave the pixels as they were.                       *)
(***************************************************************************)
NoCall == [op |-> "none"]
NoRet == [exc |-> ""]
Quiescent == call.op \in {"none", "start", "write"}

Read(indexes, out, window, masked, out_shape, boundless, r) ==
    /\ Quiescent
    /\ call' = [op |-> "read", indexes |-> indexes, out |-> out, window |-> window,
                masked |-> masked, out_shape |-> out_shape, boundless |-> boundless]
    /\ ret' = [exc |-> r.exc, arr |-> r.arr, mk |-> r.mk, mask |-> r.mask,
               fill |-> r.fill, warns |-> r.warns]
    /\ ncalls' = r.calls
    /\ caller' = r.own
    /\ UNCHANGED <<hds, closed, init, unraisable, dsvars, pixels, nwrites, lastw>>

ReadMasks(indexes, out, out_shape, window, boundless, r) ==
    /\ Quiescent
    /\ call' = [op |-> "read_masks", indexes |-> indexes, out |-> out,
                window |-> window, out_shape |-> out_shape, boundless |-> boundless]
    /\ ret' = [exc |-> r.exc, arr |-> r.arr, warns |-> r.warns]
    /\ ncalls' = r.calls
    /\ caller' = r.own
    /\ UNCHANGED <<hds, closed, init, unraisable, dsvars, pixels, nwrites, lastw>>

DatasetMask(window, boundless, r) ==
    /\ Quiescent
    /\ hds
    /\ call' = [op |-> "dataset_mask", window |-> window, boundless |-> boundless]
    /\ ret' = [exc |-> r.exc, arr |-> r.arr, warns |-> r.warns]
    /\ ncalls' = r.calls
    /\ caller' = None
    /\ UNCHANGED <<hds, closed, init, unraisable, dsvars, pixels, nwrites, lastw>>

ReadMask(out, window, r) ==
    /\ Quiescent
    /\ hds
    /\ call' = [op |-> "read_mask", out |-> out, window |-> window]
    /\ ret' = [exc |-> r.exc, none |-> r.none, arr |-> r.arr]
    /\ ncalls' = r.calls
    /\ caller' = None
    /\ UNCHANGED <<hds, closed, init, unraisable, dsvars, pixels, nwrites, lastw>>

Write(src, indexes, window, r) ==
    /\ Quiescent
    /\ nwrites < MaxWrites
    /\ nwrites' = nwrites + 1
    /\ call' = [op |-> "write", src |-> src, indexes |-> indexes, window |-> window]
    /\ ret' = [exc |-> r.exc]
    /\ ncalls' = r.calls
    /\ caller' = Some(r.own)
    /\ pixels' = r.pix
    /\ lastw' = Some([src |-> src, indexes |-> indexes, window |-> window,
                      exc |-> r.exc, before |-> pixels])
    /\ UNCHANGED <<hds, closed, init, unraisable, dsvars>>

WriteMask(mask_array, window, r) ==
    /\ Quiescent
    /\ hds
    /\ nwrites < MaxWrites
    /\ nwrites' = nwrites + 1
    /\ call' = [op |-> "write_mask", mask_array |-> mask_array, window |-> window]
    /\ ret' = [exc |-> r.exc]
    /\ ncalls' = r.calls
    /\ caller' = None
    /\ msk' = r.msk
    /\ UNCHANGED <<hds, closed, init, unraisable, count, dtypes, nodatavals, colorinterp,
                   nullBands, nullMasks, pixels, lastw>>

Start(ok, nb, existing) ==
    /\ call.op = "none"
    /\ ~hds
    /\ init.mode \in {"w", "r+"}
    /\ call' = [op |-> "start"]
    /\ IF init.mode = "w" THEN StartCreate(ok, nb) ELSE StartOpen(ok, existing)
    /\ ncalls' = <<>>
    /\ caller' = None
    /\ UNCHANGED <<init, unraisable, nwrites, lastw>>

(***************************************************************************)
(* Datasets and arguments the specifications draw from.                    *)
(***************************************************************************)
Dataset(dts, nds, ci, m, nb, nm) ==
    [count |-> Len(dts), dtypes |-> dts, nodatavals |-> nds, colorinterp |-> ci,
     msk |-> m, nullBands |-> nb, nullMasks |-> nm,
     pixels |-> [b \in 1 .. Len(dts) |-> Plane0(b, dts[b])]]

Gray(n) == [i \in 1 .. n |-> "gray"]
ReaderInit == [mode |-> "r", dtype |-> "uint8", nodata |-> None, count |-> 0]

\* the state once an existing dataset ds has been opened
Opened(ds) ==
    /\ hds = TRUE /\ closed = FALSE /\ init = ReaderInit
    /\ count = ds.count /\ dtypes = ds.dtypes /\ nodatavals = ds.nodatavals
    /\ colorinterp = ds.colorinterp /\ msk = ds.msk
    /\ nullBands = ds.nullBands /\ nullMasks = ds.nullMasks /\ pixels = ds.pixels
    /\ call = NoCall /\ ret = NoRet /\ ncalls = <<>> /\ caller = None
    /\ nwrites = 0 /\ lastw = None
    /\ unraisable \in BOOLEAN

\* the state DatasetWriterBase.__init__ leaves (lines 1272-1311)
Constructed(i) ==
    /\ hds = FALSE /\ closed = TRUE /\ init = i
    /\ count = i.count /\ dtypes = <<>> /\ nodatavals = <<>>
    /\ colorinterp = <<>> /\ msk = None
    /\ nullBands = {} /\ nullMasks = {} /\ pixels = <<>>
    /\ call = NoCall /\ ret = NoRet /\ ncalls = <<>> /\ caller = None
    /\ nwrites = 0 /\ lastw = None
    /\ unraisable \in BOOLEAN

Ranges(size) ==
    {s \in (-Margin .. size + Margin) \X (-Margin .. size + Margin) : s[1] <= s[2]}
Windows == Ranges(Height) \X Ranges(Width)
Inside(window) ==
    /\ 0 <= window[1][1] /\ window[1][1] < window[1][2] /\ window[1][2] <= Height
    /\ 0 <= window[2][1] /\ window[2][1] < window[2][2] /\ window[2][2] <= Width

\* the environment: which native transfer fails and with what code, and
\* what uninitialised memory holds
Fails == {<<0, 0>>, <<1, 3>>}
Junks == {<<0, 0>>, <<7, 9>>}

RA(indexes, out, window, masked, out_shape, boundless) ==
    [indexes |-> indexes, out |-> out, window |-> window, masked |-> masked,
     out_shape |-> out_shape, boundless |-> boundless]

\* a caller's array
Arr(n, h, w, ndim, dtype) ==
    [arr |-> [Const(n, h, w, Cx(77, 0)) EXCEPT !.ndim = ndim], dtype |-> dtype]

SpecDatasets ==
    {Dataset(<<"uint8">>, <<None>>, Gray(1), None, {}, {}),
     Dataset(<<"uint8">>, <<Some(1)>>, Gray(1), None, {}, {}),
     Dataset(<<"uint8">>, <<Some(300)>>, Gray(1), None, {}, {}),
     Dataset(<<"uint8">>, <<Some(-1)>>, Gray(1), None, {}, {}),
     Dataset(<<"int16">>, <<Some(-40000)>>, Gray(1), None, {}, {}),
     Dataset(<<"complex64">>, <<Some(2)>>, Gray(1), None, {}, {}),
     Dataset(<<"uint8", "uint8">>, <<None, Some(300)>>, Gray(2), None, {}, {}),
     Dataset(<<"uint8", "uint16">>, <<None, None>>, Gray(2), None, {}, {}),
     Dataset(<<"uint8", "uint8">>, <<Some(300), Some(400)>>, Gray(2), None, {}, {}),
     Dataset(<<"uint8">>, <<Some(1)>>, Gray(1), None, {1}, {})}

BoundlessArgs ==
    {RA(ix, None, Some(w), FALSE, None, TRUE) :
        ix \in {NoIndexes, IntIndex(1)}, w \in Windows}
    \cup {RA(IntIndex(1), None, Some(w), TRUE, None, TRUE) : w \in Windows}
    \cup {RA(IntIndex(1), None, Some(w), FALSE, Some(<<1, 1, 1>>), TRUE) : w \in Windows}
    \cup {RA(IntIndex(1), None, Some(w), FALSE,
             Some(<<w[1][2] - w[1][1], w[2][2] - w[2][1]>>), TRUE) : w \in Windows}
    \cup {RA(ix, None, Some(w), m, None, TRUE) :
             ix \in {IntIndex(3), ListIndex(<<1, 3>>), ListIndex(<<2, 1>>)},
             w \in {<< <<-Margin, 0>>, <<-Margin, 0>> >>, << <<-Margin, 1>>, <<0, Width>> >>,
                    << <<0, Height>>, <<0, Width>> >>},
             m \in BOOLEAN}

DirectArgs ==
    {RA(ix, o, w, m, None, b) :
        ix \in {NoIndexes, IntIndex(1), IntIndex(3), ListIndex(<<>>),
                ListIndex(<<1>>), ListIndex(<<2, 1>>)},
        o \in {None, Some(Arr(1, Height, Width, 2, "uint8")),
               Some(Arr(0, Height, Width, 3, "uint8"))},
        w \in {None, Some(<< <<0, 1>>, <<0, Width>> >>),
               Some(<< <<-1, 1>>, <<1, Width + 1>> >>)},
        m \in BOOLEAN, b \in {FALSE}}
    \cup {RA(IntIndex(1), Some(Arr(1, Height, Width, 3, "uint8")), None, FALSE,
             Some(<<1, 1, 1>>), FALSE),
          RA(NoIndexes, None, None, TRUE, Some(<<1, 1, 1>>), TRUE)}

SpecReadArgs == BoundlessArgs \cup DirectArgs

Init == \E ds \in SpecDatasets : Opened(ds)

\* the guard of Read is stated once, ahead of the choice of arguments
Next ==
    /\ Quiescent
    /\ \E a \in SpecReadArgs, fail \in Fails, junk \in Junks :
          Read(a.indexes, a.out, a.window, a.masked, a.out_shape, a.boundless,
               read(a.indexes, a.out, a.window, a.masked, a.out_shape, a.boundless,
                    fail, junk))

Spec == Init /\ [][Next]_vars

(***************************************************************************)
(* Mask reads: read_masks and dataset_mask over datasets with nodata       *)
(* values, an alpha band or a per-dataset mask.                            *)
(***************************************************************************)
RGBA == <<"red", "green", "blue", "alpha">>
U8(n) == [i \in 1 .. n |-> "uint8"]
All(n, v) == [i \in 1 .. n |-> v]
MskPlane ==
    [q \in (0 .. Height - 1) \X (0 .. Width - 1) |->
        IF q = <<0, 1>> THEN Zero ELSE Cx(255, 0)]

MaskDatasets ==
    {Dataset(U8(1), All(1, None), Gray(1), None, {}, {}),
     Dataset(U8(2), All(2, Some(1)), Gray(2), None, {}, {}),
     Dataset(U8(2), All(2, Some(11)), Gray(2), None, {}, {}),
     Dataset(U8(3), <<Some(1), Some(11), Some(21)>>, Gray(3), None, {}, {}),
     Dataset(U8(4), All(4, None), RGBA, None, {}, {}),
     Dataset(U8(4), All(4, Some(1)), RGBA, None, {}, {}),
     Dataset(U8(4), All(4, Some(1)), RGBA, Some(MskPlane), {}, {}),
     Dataset(U8(4), All(4, Some(1)), Gray(4), None, {}, {}),
     Dataset(U8(4), <<Some(1), None, None, None>>, <<"red", "green", "blue", "gray">>,
             None, {}, {}),
     Dataset(U8(2), All(2, Some(1)), Gray(2), Some(MskPlane), {}, {}),
     Dataset(U8(2), All(2, Some(1)), Gray(2), None, {}, {1})}

MaskWindows ==
    {None, Some(<< <<0, 1>>, <<0, Width>> >>), Some(<< <<-Margin, 1>>, <<1, Width + Margin>> >>),
     Some(<< <<-Margin, Height + Margin>>, <<0, Width>> >>),
     Some(<< <<Height, Height + Margin>>, <<0, Width>> >>),
     Some(<< <<-Margin, 0>>, <<-Margin, 0>> >>)}

MaskReadArgs ==
    {RA(ix, None, w, FALSE, os, b) :
        ix \in {NoIndexes, IntIndex(1), IntIndex(2), ListIndex(<<>>), IntIndex(5),
                ListIndex(<<1, 5>>)},
        w \in MaskWindows, os \in {None, Some(<<1, 1>>)}, b \in BOOLEAN}
    \cup {RA(ix, Some(Arr(n, Height, Width, 3, "uint8")), None, FALSE, None, FALSE) :
            ix \in {NoIndexes, ListIndex(<<>>)}, n \in {0, 1}}

InitMask == \E ds \in MaskDatasets : Opened(ds)

NextMask ==
    \/ /\ Quiescent /\ hds
       /\ \E a \in MaskReadArgs, fail \in Fails, junk \in Junks :
             ReadMasks(a.indexes, a.out, a.out_shape, a.window, a.boundless,
                       read_masks(a.indexes, a.out, a.out_shape, a.window, a.boundless,
                                  <<>>, fail, junk))
    \/ /\ Quiescent /\ hds
       /\ \E w \in MaskWindows, b \in BOOLEAN, fail \in Fails \cup {<<2, 3>>},
             junk \in Junks :
             DatasetMask(w, b, dataset_mask(w, b, fail, junk))
    \/ /\ Quiescent /\ hds
       /\ \E w \in {None, Some(<< <<0, 1>>, <<0, Width>> >>)}, fail \in Fails,
             junk \in Junks :
             ReadMask(None, w, read_mask(None, w, fail, junk))
    \/ /\ Quiescent /\ hds
       /\ \E ix \in {NoIndexes, IntIndex(1)}, w \in MaskWindows, b \in BOOLEAN,
             fail \in Fails \cup {<<2, 3>>}, junk \in Junks :
             Read(ix, None, w, TRUE, None, b, read(ix, None, w, TRUE, None, b, fail, junk))

SpecMask == InitMask /\ [][NextMask]_vars

(***************************************************************************)
(* The writer: __init__, start, write, and reads of what was written.      *)
(***************************************************************************)
WInit(mode, dtype, nodata, n) ==
    [mode |-> mode, dtype |-> dtype, nodata |-> nodata, count |-> n]

WriterInits ==
    {WInit("w", d, None, 1) : d \in Encodings}
    \cup {WInit("w", d, None, 2) : d \in {"uint8", "complex64"}}
    \cup {WInit("w", "uint8", Some(v), 1) : v \in {5, 255, 300, -1}}
    \cup {WInit("w", "int16", Some(40000), 2), WInit("w", "uint16", Some(40000), 2),
          WInit("r+", "float64", None, 0)}

ExistingDatasets ==
    {Dataset(<<"uint8">>, <<Some(300)>>, Gray(1), None, {}, {}),
     Dataset(<<"uint8", "uint16">>, <<None, None>>, Gray(2), None, {}, {})}

\* a source buffer whose planes and cells all differ
Src(n, h, w, ndim, dtype) ==
    [arr |-> [MkArr(n, h, w,
                    [p \in Cells(n, h, w) |->
                        Conv(Cx(100 + 20 * p[1] + Width * p[2] + p[3],
                                50 + 20 * p[1] + Width * p[2] + p[3]), dtype)])
              EXCEPT !.ndim = ndim],
     dtype |-> dtype]

WA(src, indexes, window) == [src |-> src, indexes |-> indexes, window |-> window]

WriteWindows ==
    {None, Some(<< <<0, 1>>, <<0, Width>> >>), Some(<< <<1, Height>>, <<1, Width>> >>),
     Some(<< <<1, Height + 1>>, <<0, Width>> >>)}

\* the shape a write to window w asks of its source
WinH(w) == IF w = None THEN Height ELSE Get(w)[1][2] - Get(w)[1][1]
WinW(w) == IF w = None THEN Width ELSE Get(w)[2][2] - Get(w)[2][1]

WriteArgs(dtype, n) ==
    {WA(Src(Len(l), WinH(w), WinW(w), 3, dtype), ListIndex(l), w) :
        l \in {<<>>, <<1>>, <<2>>, <<2, 1>>}, w \in WriteWindows}
    \cup {WA(Src(1, WinH(w), WinW(w), 2, dtype), IntIndex(1), w) : w \in WriteWindows}
    \cup {WA(Src(n, WinH(w), WinW(w), 3, dtype), NoIndexes, w) : w \in WriteWindows}
    \cup {WA(Src(1, Height, Width, 3, "uint16"), ListIndex(<<1>>), None),
          WA(Src(1, Height, Width, 3, dtype), ListIndex(<<>>), None),
          WA(Src(1, Height, Width, 3, dtype), IntIndex(1), None),
          WA(Src(1, 1, 1, 3, dtype), ListIndex(<<1>>), None),
          WA(Src(1, Height, Width, 3, dtype), ListIndex(<<1>>),
             Some(<< <<0, 1>>, <<0, Width>> >>))}

\* the reads that follow: of what the last write wrote, of the whole
\* dataset, and with an empty index list
ReadBackArgs ==
    {RA(NoIndexes, None, None, FALSE, None, FALSE),
     RA(ListIndex(<<>>), None, None, FALSE, None, FALSE),
     RA(ListIndex(<<>>), Some(Arr(0, Height, Width, 3, "uint8")), None, FALSE, None, FALSE),
     RA(IntIndex(1), Some(Arr(1, Height, Width, 2, "uint16")), None, FALSE, None, FALSE)}
    \cup (IF lastw = None THEN {}
          ELSE {RA(Get(lastw).indexes, None, Get(lastw).window, FALSE, None, FALSE)})

\* the masks written: True, False, and arrays of the window's shape whose
\* cells differ
MaskWriteArgs ==
    LET cell(kind, p) == Cx(((p[2] + p[3]) % 2) * (IF kind = "bool" THEN 1 ELSE 255), 0)
        array(kind, h, w) ==
            [MkArr(1, h, w, [p \in Cells(1, h, w) |-> cell(kind, p)]) EXCEPT !.ndim = 2]
    IN  {[mask_array |-> [kind |-> k, arr |-> NoArr], window |-> None] :
            k \in {"True", "False"}}
        \cup {[mask_array |-> [kind |-> k, arr |-> array(k, WinH(w), WinW(w))],
               window |-> w] :
                k \in {"bool", "uint8"},
                w \in {None, Some(<< <<0, 1>>, <<0, Width>> >>),
                       Some(<< <<1, Height + 1>>, <<0, Width>> >>)}}

InitWrite == \E i \in WriterInits : Constructed(i)

\* the guard of each operation is stated ahead of the choice of its
\* arguments; the allocator's junk is looked at by the complex encodings only
\* on these paths
NextWrite ==
    LET junks == IF (IF hds THEN dtypes[1] ELSE init.dtype) \in ComplexEncodings
                 THEN Junks ELSE {<<0, 0>>}
    IN  \/ /\ call.op = "none" /\ ~hds
           /\ \E ok \in BOOLEAN, nb \in {{}, {1}}, existing \in ExistingDatasets :
                 Start(ok, nb, existing)
        \/ /\ Quiescent /\ nwrites < MaxWrites
           /\ \E a \in WriteArgs(IF hds THEN dtypes[1] ELSE init.dtype, count),
                 fail \in Fails, junk \in junks :
                 Write(a.src, a.indexes, a.window, write(a.src, a.indexes, a.window, fail, junk))
        \/ /\ Quiescent /\ hds
           /\ \E a \in ReadBackArgs, fail \in Fails, junk \in junks :
                 Read(a.indexes, a.out, a.window, a.masked, a.out_shape, a.boundless,
                      read(a.indexes, a.out, a.window, a.masked, a.out_shape, a.boundless,
                           fail, junk))
        \/ /\ Quiescent /\ hds
           /\ \E a \in ReadBackArgs, fail \in Fails, junk \in junks :
                 ReadMasks(a.indexes, a.out, a.out_shape, a.window, a.boundless,
                           read_masks(a.indexes, a.out, a.out_shape, a.window, a.boundless,
                                      <<>>, fail, junk))
        \/ /\ call.op \in {"none", "start"} /\ ~hds
           /\ \E ix \in {NoIndexes, IntIndex(1)},
                 w \in {None, Some(<< <<0, 1>>, <<0, Width>> >>),
                        Some(<< <<-Margin, 0>>, <<-Margin, 0>> >>)},
                 m \in BOOLEAN, b \in BOOLEAN :
                 Read(ix, None, w, m, None, b, read(ix, None, w, m, None, b, <<0, 0>>, <<0, 0>>))
        \/ /\ call.op \in {"none", "start"} /\ ~hds
           /\ \E ix \in {NoIndexes, IntIndex(1)},
                 w \in {None, Some(<< <<0, 1>>, <<0, Width>> >>),
                        Some(<< <<-Margin, 0>>, <<-Margin, 0>> >>)},
                 b \in BOOLEAN :
                 ReadMasks(ix, None, None, w, b,
                           read_masks(ix, None, None, w, b, <<>>, <<0, 0>>, <<0, 0>>))
        \/ /\ Quiescent /\ hds
           /\ \E w \in {None, Some(<< <<-Margin, 1>>, <<0, Width>> >>)}, b \in BOOLEAN,
                 fail \in Fails \cup {<<2, 3>>} :
                 DatasetMask(w, b, dataset_mask(w, b, fail, <<0, 0>>))
        \/ /\ Quiescent /\ hds /\ nwrites < MaxWrites
           /\ \E a \in MaskWriteArgs, created \in BOOLEAN, fresh \in {Zero, Cx(255, 0)},
                 fail \in Fails :
                 WriteMask(a.mask_array, a.window,
                           write_mask(a.mask_array, a.window, created, fresh, fail))

SpecWrite == InitWrite /\ [][NextWrite]_vars

(***************************************************************************)
(* Properties.                                                             *)
(***************************************************************************)
\* what the claims say of a read: the true intersection of a window with
\* the dataset, and the fill value of plane i of the result
RowsIn(window) == Max(0, Min(window[1][2], Height) - Max(window[1][1], 0))
ColsIn(window) == Max(0, Min(window[2][2], Width) - Max(window[2][1], 0))
RowOff(window) == Max(0, -window[1][1])
ColOff(window) == Max(0, -window[2][1])
InBlock(window, r, c) ==
    /\ RowOff(window) <= r /\ r < RowOff(window) + RowsIn(window)
    /\ ColOff(window) <= c /\ c < ColOff(window) + ColsIn(window)
BandOf(i) == Indexes(call.indexes)[i + 1]
FillOf(b) ==
    IF IsNone(nodatavals[b]) THEN Zero
    ELSE Cx(Max(dt_min(dtypes[b]), Min(dt_max(dtypes[b]), Get(nodatavals[b]))), 0)
\* the bands asked for exist and share one encoding
BandsValid ==
    /\ \A i \in DOMAIN Indexes(call.indexes) : Indexes(call.indexes)[i] \in 1 .. count
    /\ Cardinality(check_dtypes(Indexes(call.indexes))) = 1
PlainBoundless ==
    /\ call.op = "read" /\ call.boundless /\ call.window # None
    /\ call.out = None /\ ~call.masked /\ BandsValid

\* C1: a buffer of the window's rows and columns written to a window inside
\* the dataset and read back from the same window and bands comes back exactly, and the dataset's pixels
\* inside the window equal it, for every encoding
WrittenCell(i, r, c) == Get(lastw).src.arr.d[<<i, r, c>>]
C1_RoundTrip ==
    (/\ call.op = "read" /\ ret.exc = "" /\ lastw # None
     /\ Get(lastw).exc = ""
     /\ Get(lastw).window # None /\ Inside(Get(Get(lastw).window))
     /\ Get(lastw).src.arr.h = WinH(Get(lastw).window)
     /\ Get(lastw).src.arr.w = WinW(Get(lastw).window)
     /\ call.window = Get(lastw).window /\ call.indexes = Get(lastw).indexes
     /\ call.out = None /\ call.out_shape = None /\ ~call.masked /\ ~call.boundless)
    => /\ ret.arr = Get(lastw).src.arr
       /\ \A p \in DOMAIN ret.arr.d :
             pixels[BandOf(p[1])][<<Get(call.window)[1][1] + p[2],
                                    Get(call.window)[2][1] + p[3]>>]
                = WrittenCell(p[1], p[2], p[3])

\* C2: a boundless read whose window shares no row or no column with the
\* dataset returns the nodata value (zero if none) everywhere and makes no
\* native call
C2_EmptyOverlap ==
    (/\ PlainBoundless /\ call.out_shape = None
     /\ (RowsIn(Get(call.window)) = 0 \/ ColsIn(Get(call.window)) = 0))
    => /\ ret.exc = ""
       /\ ncalls = <<>>
       /\ \A p \in DOMAIN ret.arr.d : ret.arr.d[p] = FillOf(BandOf(p[1]))

\* C3: a boundless read partly outside the dataset, with no out array and
\* a result of the window's shape: cells outside the overlap hold the fill
\* value, cells inside hold the dataset's pixels
C3_PartialFill ==
    (/\ PlainBoundless /\ ret.exc = ""
     /\ RowsIn(Get(call.window)) > 0 /\ ColsIn(Get(call.window)) > 0
     /\ ~Inside(Get(call.window))
     /\ ret.arr.h = Get(call.window)[1][2] - Get(call.window)[1][1]
     /\ ret.arr.w = Get(call.window)[2][2] - Get(call.window)[2][1])
    => \A p \in DOMAIN ret.arr.d :
          ret.arr.d[p] =
             IF InBlock(Get(call.window), p[2], p[3])
             THEN pixels[BandOf(p[1])][<<Get(call.window)[1][1] + p[2],
                                         Get(call.window)[2][1] + p[3]>>]
             ELSE FillOf(BandOf(p[1]))

\* C4: a boundless read without out and out_shape asks the dataset for
\* exactly the overlap and puts it at row offset max(0, -row_start) and
\* column offset max(0, -col_start); the other cells hold the nodata value
C4_Placement ==
    (/\ PlainBoundless /\ call.out_shape = None /\ ncalls # <<>>)
    => /\ ncalls[1].yoff = Max(Min(Get(call.window)[1][1], Height), 0)
       /\ ncalls[1].xoff = Max(Min(Get(call.window)[2][1], Width), 0)
       /\ ncalls[1].height = RowsIn(Get(call.window))
       /\ ncalls[1].width = ColsIn(Get(call.window))
       /\ ret.exc = "" =>
            \A p \in DOMAIN ret.arr.d :
               ret.arr.d[p] =
                  IF InBlock(Get(call.window), p[2], p[3])
                  THEN pixels[BandOf(p[1])][<<ncalls[1].yoff + p[2] - RowOff(Get(call.window)),
                                              ncalls[1].xoff + p[3] - ColOff(Get(call.window))>>]
                  ELSE FillOf(BandOf(p[1]))
C4_Witness ==
    /\ PlainBoundless /\ call.out_shape = None /\ ret.exc = ""
    /\ call.window = Some(<< <<-1, 1>>, <<-1, 1>> >>)
    /\ Len(ncalls) = 1
    /\ ret.arr.d[<<0, 1, 1>>] = pixels[1][<<0, 0>>]
    /\ ret.arr.d[<<0, 0, 0>>] = Cx(255, 0)

\* C5: when band 1 has no per-dataset mask and the dataset is not 4 bands
\* with band 1 red, dataset_mask is the OR of read_masks(i) over every
\* band i from 1 to the last
BandMask(i) ==
    read_masks(IntIndex(i), None, None, call.window, call.boundless, <<>>, <<0, 0>>,
               <<0, 0>>).arr
RECURSIVE OrOfBands(_)
OrOfBands(i) == IF i = 1 THEN BandMask(1) ELSE OrArr(OrOfBands(i - 1), BandMask(i))
C5_OrOfAllBands ==
    (/\ call.op = "dataset_mask" /\ ret.exc = ""
     /\ ~HasBit(GDALGetMaskFlags(1), 2)
     /\ ~(count = 4 /\ colorinterp[1] = "red"))
    => ret.arr = OrOfBands(count)

\* C6: dataset_mask returns band 1's mask when band 1's flags have the
\* per-dataset bit, whatever the band count and colour roles; else band 4's
\* mask when there are 4 bands and band 1 is red, nodata value or not; only
\* otherwise does it read band masks to combine them
C6_Precedence ==
    (call.op = "dataset_mask" /\ ret.exc = "")
    => IF HasBit(GDALGetMaskFlags(1), 2)
       THEN /\ ret.arr = BandMask(1)
            /\ \A k \in DOMAIN ncalls : ncalls[k].bands = <<1>>
            /\ Len(ncalls) <= 1
       ELSE IF count = 4 /\ colorinterp[1] = "red"
       THEN /\ ret.arr = BandMask(4)
            /\ \A k \in DOMAIN ncalls : ncalls[k].bands = <<4>>
            /\ Len(ncalls) <= 1
       ELSE \A k \in DOMAIN ncalls : ncalls[k].bands \in {<<i>> : i \in 1 .. count}
C6_Witness ==
    /\ call.op = "dataset_mask" /\ ret.exc = ""
    /\ count = 4 /\ colorinterp[1] = "red"
    /\ HasBit(GDALGetMaskFlags(1), 2) /\ ~IsNone(nodatavals[1])
    /\ Len(ncalls) = 1 /\ ncalls[1].bands = <<1>>

\* C7: after write(src, indexes) with no index twice and src of the window's
\* rows and columns, band indexes[i] holds src[i] over the written window, in
\* the caller's order, and every other band and pixel is as before
WindowOfWrite == IoWindow(call.window)
SrcCell(b, q) ==
    <<(CHOOSE i \in DOMAIN Indexes(call.indexes) : Indexes(call.indexes)[i] = b) - 1,
      q[1] - WindowOfWrite[2], q[2] - WindowOfWrite[1]>>
C7_BandOrder ==
    (/\ call.op = "write" /\ ret.exc = ""
     /\ Cardinality(Range(Indexes(call.indexes))) = Len(Indexes(call.indexes))
     /\ call.src.arr.h = WindowOfWrite[4] /\ call.src.arr.w = WindowOfWrite[3])
    => \A b \in 1 .. count : \A q \in DOMAIN pixels[b] :
          IF /\ \E i \in DOMAIN Indexes(call.indexes) : Indexes(call.indexes)[i] = b
             /\ q[1] >= WindowOfWrite[2] /\ q[1] < WindowOfWrite[2] + WindowOfWrite[4]
             /\ q[2] >= WindowOfWrite[1] /\ q[2] < WindowOfWrite[1] + WindowOfWrite[3]
          THEN /\ SrcCell(b, q) \in DOMAIN call.src.arr.d
               /\ pixels[b][q] = call.src.arr.d[SrcCell(b, q)]
          ELSE pixels[b][q] = Get(lastw).before[b][q]

FillCell(b) ==
    IF IsNone(nodatavals[b]) THEN 0
    ELSE IF Get(nodatavals[b]) < dt_min(dtypes[b]) THEN dt_min(dtypes[b])
    ELSE IF Get(nodatavals[b]) > dt_max(dtypes[b]) THEN dt_max(dtypes[b])
    ELSE Get(nodatavals[b])
C9_NodataClamp ==
    (/\ call.op = "read" /\ ret.exc = "" /\ call.boundless /\ call.window # None
     /\ call.out = None /\ call.out_shape = None)
    => /\ \A p \in DOMAIN ret.arr.d :
             ~InBlock(Get(call.window), p[2], p[3])
             => /\ Re(ret.arr.d[p]) = FillCell(BandOf(p[1]))
                /\ dt_min(dtypes[BandOf(p[1])]) <= Re(ret.arr.d[p])
                /\ Re(ret.arr.d[p]) <= dt_max(dtypes[BandOf(p[1])])
       /\ (call.masked /\ ret.fill # None)
             => /\ Get(ret.fill) = FillCell(BandOf(0))
                /\ dt_min(dtypes[BandOf(0)]) <= Get(ret.fill)
                /\ Get(ret.fill) <= dt_max(dtypes[BandOf(0)])
C9_Witness ==
    /\ call.op = "read" /\ ret.exc = "" /\ call.boundless
    /\ call.out = None /\ call.out_shape = None
    /\ call.window = Some(<< <<-1, 1>>, <<0, Width>> >>)
    /\ nodatavals[1] = Some(300) /\ dtypes[1] = "uint8"
    /\ ret.arr.d[<<0, 0, 0>>] = Cx(255, 0)
    /\ call.masked /\ ret.fill = Some(255)

\* C10: read, read_masks and write given an empty index list fail with an
\* error, whatever the buffer supplied, and make no native call
C10_EmptyIndexes ==
    (/\ call.op \in {"read", "read_masks", "write"}
     /\ call.indexes = ListIndex(<<>>))
    => ret.exc # "" /\ ncalls = <<>>

\* C11: read, read_masks and write fail with an error whenever a band
\* index submitted is not one of the dataset's indexes, whatever the window
\* and the boundless setting
C11_IndexMembership ==
    (/\ call.op \in {"read", "read_masks", "write"}
     /\ \E i \in DOMAIN call.indexes.v : call.indexes.v[i] \notin 1 .. count)
    => ret.exc # ""

\* C12: read and write fail with an error and make no transfer when the
\* selected bands do not share one encoding, or when the caller's buffer
\* (out of read, src of write) has another encoding than the selected bands
MixedBands == \E i, j \in DOMAIN Indexes(call.indexes) :
                 dtypes[Indexes(call.indexes)[i]] # dtypes[Indexes(call.indexes)[j]]
BufferDiffers(dtype) ==
    \E i \in DOMAIN Indexes(call.indexes) : dtypes[Indexes(call.indexes)[i]] # dtype
C12_NoImplicitCast ==
    (/\ call.op \in {"read", "write"} /\ hds
     /\ \A i \in DOMAIN Indexes(call.indexes) : Indexes(call.indexes)[i] \in 1 .. count
     /\ \/ MixedBands
        \/ call.op = "write" /\ BufferDiffers(call.src.dtype)
        \/ call.op = "read" /\ call.out # None /\ BufferDiffers(Get(call.out).dtype))
    => /\ ret.exc # ""
       /\ ncalls = <<>>
       /\ call.op = "write" => pixels = Get(lastw).before
C12_Witness ==
    /\ call.op = "write" /\ hds /\ call.indexes = ListIndex(<<1>>)
    /\ dtypes[1] = "uint8" /\ call.src.dtype = "uint16"
    /\ ret.exc = "ValueError: the array's dtype does not match the file's dtype"
    /\ ncalls = <<>> /\ pixels = Get(lastw).before

\* C13: an invalid request to read, read_masks or write (empty index list,
\* band index out of range, mixed encodings, a buffer with the wrong number
\* of bands or another encoding, both out and out_shape) is rejected before
\* any native transfer, and the dataset's pixels are unchanged
BadBufferOfRead ==
    \/ call.out # None /\ call.out_shape # None
    \/ /\ call.out # None
       /\ Shape0(Get(Reshape3(call.indexes, call.out)).arr) # Len(Indexes(call.indexes))
    \/ /\ call.out_shape # None
       /\ Shape3(Get(call.out_shape))[1] # Len(Indexes(call.indexes))
    \/ call.op = "read" /\ call.out # None /\ BufferDiffers(Get(call.out).dtype)
    \/ call.op = "read_masks" /\ call.out # None /\ Get(call.out).dtype # "uint8"
BadBufferOfWrite ==
    \/ call.src.arr.ndim # (IF call.indexes.kind = "int" THEN 2 ELSE 3)
    \/ call.indexes.kind # "int" /\ call.src.arr.n # Len(Indexes(call.indexes))
    \/ BufferDiffers(call.src.dtype)
InvalidRequest ==
    /\ call.op \in {"read", "read_masks", "write"} /\ hds
    /\ \/ Indexes(call.indexes) = <<>>
       \/ \E i \in DOMAIN Indexes(call.indexes) : Indexes(call.indexes)[i] \notin 1 .. count
       \/ call.op \in {"read", "write"} /\ MixedBands
       \/ call.op \in {"read", "read_masks"} /\ BadBufferOfRead
       \/ call.op = "write" /\ BadBufferOfWrite
C13_RejectedBeforeNative ==
    InvalidRequest
    => /\ ret.exc # ""
       /\ ncalls = <<>>
       /\ call.op = "write" => pixels = Get(lastw).before

\* C14: a write to the whole dataset or to a window inside it whose buffer
\* is not 3-D with one plane per index, or whose rows and columns differ from
\* those of the window (of the dataset without a window), is rejected before
\* any native call
ResolvedShape == <<WinH(call.window), WinW(call.window)>>
C14_BufferShape ==
    (/\ call.op = "write" /\ hds
     /\ call.window = None \/ Inside(Get(call.window))
     /\ \/ call.src.arr.ndim # (IF call.indexes.kind = "int" THEN 2 ELSE 3)
        \/ call.indexes.kind # "int" /\ call.src.arr.n # Len(Indexes(call.indexes))
        \/ <<call.src.arr.h, call.src.arr.w>> # ResolvedShape)
    => /\ ret.exc # ""
       /\ ncalls = <<>>
       /\ pixels = Get(lastw).before

\* C15: for a read or read_masks that is not boundless, and for a write,
\* given a window, every rectangle handed to the native transfer lies in
\* the dataset: 0 <= row_start <= row_stop <= height and the same for columns
C15_WindowClipped ==
    (/\ call.op \in {"read", "read_masks", "write"} /\ call.window # None
     /\ call.op = "write" \/ ~call.boundless)
    => \A k \in DOMAIN ncalls :
          /\ 0 <= ncalls[k].yoff /\ 0 <= ncalls[k].height
          /\ ncalls[k].yoff + ncalls[k].height <= Height
          /\ 0 <= ncalls[k].xoff /\ 0 <= ncalls[k].width
          /\ ncalls[k].xoff + ncalls[k].width <= Width

\* C16: a read with masked=True whose requested bands all carry the
\* all-valid flag makes no mask transfer and returns a result without a
\* mask, whatever the flags of the other bands, boundless or not
RequestedAllValid ==
    /\ \A i \in DOMAIN Indexes(call.indexes) : Indexes(call.indexes)[i] \in 1 .. count
    /\ \A i \in DOMAIN Indexes(call.indexes) :
          HasBit(GDALGetMaskFlags(Indexes(call.indexes)[i]), 1)
C16_AllValidSkipsMask ==
    (call.op = "read" /\ call.masked /\ RequestedAllValid)
    => /\ \A k \in DOMAIN ncalls : ncalls[k].fn # "GDALRasterIO"
       /\ ret.exc = "" => ret.mk = "nomask"

\* C17: when a masked read fetches the validity bytes of its bands, the
\* mask of the result has the shape of the data and a cell is masked exactly
\* when the validity byte fetched for it is 0 (in a boundless read this is
\* said of the cells of the block read from the dataset)
MaskFetched ==
    /\ call.op = "read" /\ call.masked /\ ret.exc = "" /\ ret.mk = "mask"
    /\ Len(ncalls) = Len(Indexes(call.indexes)) + 1
    /\ \A k \in 2 .. Len(ncalls) :
          /\ ncalls[k].fn = "GDALRasterIO" /\ ncalls[k].rv = 0
          /\ ncalls[k].width >= 1 /\ ncalls[k].height >= 1
\* the validity byte the k-th native call delivered at row r, column c of a
\* buffer of bh rows and bw columns
MaskByteAt(k, r, c, bh, bw) ==
    MaskPlane(pixels, ncalls[k].bands[1])[<<ncalls[k].yoff + NN(r, ncalls[k].height, bh),
                                           ncalls[k].xoff + NN(c, ncalls[k].width, bw)>>]
C17_MaskIsInverse ==
    (MaskFetched /\ (call.boundless /\ call.window # None => call.out_shape = None /\ call.out = None))
    => /\ <<ret.mask.n, ret.mask.h, ret.mask.w, ret.mask.ndim>>
             = <<ret.arr.n, ret.arr.h, ret.arr.w, ret.arr.ndim>>
       /\ \A p \in DOMAIN ret.mask.d :
             IF call.boundless /\ call.window # None
             THEN InBlock(Get(call.window), p[2], p[3])
                  => (ret.mask.d[p] = Cx(1, 0)
                        <=> MaskByteAt(p[1] + 2, p[2] - RowOff(Get(call.window)),
                                       p[3] - ColOff(Get(call.window)),
                                       ncalls[p[1] + 2].height, ncalls[p[1] + 2].width) = Zero)
             ELSE (ret.mask.d[p] = Cx(1, 0)
                     <=> MaskByteAt(p[1] + 2, p[2], p[3], ret.mask.h, ret.mask.w) = Zero)
C17_Witness ==
    /\ MaskFetched /\ ~call.boundless /\ call.window = None /\ call.out = None
    /\ call.indexes = NoIndexes /\ nodatavals = <<Some(1)>> /\ pixels[1][<<0, 0>>] = Cx(1, 0)
    /\ ret.mask.d[<<0, 0, 0>>] = Cx(1, 0) /\ ret.mask.d[<<0, 0, 1>>] = Zero
    /\ ncalls[2].bands = <<1>>

\* C18: a masked read that returns, by the direct path, the boundless path
\* with an overlap or the boundless path with an empty overlap, carries a fill
\* value exactly when every requested band has a nodata value configured and
\* the clamped values are all the same; the fill value is then that value
SharedNodata ==
    LET idx == Indexes(call.indexes)
    IN  /\ \A i \in DOMAIN idx : ~IsNone(nodatavals[idx[i]])
        /\ \A i, j \in DOMAIN idx : FillCell(idx[i]) = FillCell(idx[j])
EmptyOverlap ==
    LET w == Get(call.window)
    IN  /\ Max(Min(w[1][1], Height), 0) = 0 /\ Max(Min(w[1][2], Height), 0) = 0
        /\ Max(Min(w[2][1], Width), 0) = 0 /\ Max(Min(w[2][2], Width), 0) = 0
C18_FillValue ==
    (call.op = "read" /\ call.masked /\ ret.exc = "")
    => /\ ret.fill # None <=> SharedNodata
       /\ ret.fill # None => Get(ret.fill) = FillCell(Indexes(call.indexes)[1])
C18_Witness ==
    /\ call.op = "read" /\ call.masked /\ ret.exc = "" /\ ret.mk = "mask"
    /\ call.indexes = ListIndex(<<2, 1>>) /\ nodatavals = <<None, Some(300)>>
    /\ call.boundless /\ call.window # None /\ EmptyOverlap /\ ret.fill = None

\* C19: a call of read, read_masks, write or write_mask in which a native
\* transfer returned a result other than 0 ends with an error
NonzeroTransfer ==
    \E k \in DOMAIN ncalls :
        /\ ncalls[k].fn \in {"GDALRasterIO", "GDALDatasetRasterIO"}
        /\ ncalls[k].rv # 0
C19_NonzeroIsError ==
    (call.op \in {"read", "read_masks", "write", "write_mask"} /\ NonzeroTransfer)
    => ret.exc # ""

\* C20: read_masks, dataset_mask, a masked read and read_mask fail with an
\* error when a band whose mask they are to read, or its mask band, is a null
\* handle (a boundless call whose window misses the dataset aside)
MaskBandsRead ==
    CASE call.op = "read_masks" -> Range(Indexes(call.indexes))
      [] call.op = "read" -> IF call.masked THEN Range(Indexes(call.indexes)) ELSE {}
      [] call.op = "read_mask" -> {1}
      [] call.op = "dataset_mask" ->
            IF 1 \in nullBands THEN {1}
            ELSE IF HasBit(mask_flags[1], 2) THEN {1}
            ELSE IF count = 4 /\ colorinterp[1] = "red" THEN {4}
            ELSE 1 .. Max(1, count - 1)
      [] OTHER -> {}
\* a boundless call whose window misses the dataset reads no band at all
ReadsNothing == call.op # "read_mask" /\ call.boundless /\ call.window # None /\ EmptyOverlap
C20_NullHandleIsError ==
    (/\ MaskBandsRead \cap (1 .. count) \cap (nullBands \cup nullMasks) # {}
     /\ ~ReadsNothing)
    => ret.exc # ""

\* C21: read_masks, dataset_mask or a masked read that reads the mask bands
\* of existing bands of a 4-band dataset whose 4th band is alpha and whose bands' masks come from
\* a nodata value issues a NodataShadowWarning, and still returns its mask
\* when the native transfers succeed
AlphaWithNodata ==
    /\ count = 4 /\ colorinterp[4] = "alpha"
    /\ \E b \in 1 .. count : ~IsNone(nodatavals[b])
MaskTransferMade ==
    /\ call.op \in {"read_masks", "dataset_mask", "read"}
    /\ MaskBandsRead \subseteq (1 .. count) \ (nullBands \cup nullMasks)
    /\ \E k \in DOMAIN ncalls : ncalls[k].fn = "GDALRasterIO"
WarnedAndReturned ==
    /\ ret.warns >= 1
    /\ (\A k \in DOMAIN ncalls : ncalls[k].rv = 0)
          => /\ ret.exc = ""
             /\ call.op = "read" => ret.mk = "mask"
NothingMoved == \A k \in DOMAIN ncalls : ncalls[k].width < 1 \/ ncalls[k].height < 1
C22_Prefilled ==
    (call.op = "read" /\ call.out = None /\ ret.exc = "" /\ NothingMoved)
    => \A p \in DOMAIN ret.arr.d : ret.arr.d[p] = FillOf(BandOf(p[1]))

\* C23: a read or read_masks of existing bands, not boundless, whose window
\* shares no row or no column with the dataset returns normally, with a
\* result of zero rows or zero columns unless out_shape says otherwise, and
\* makes no native call
OutsideRequest ==
    /\ call.op \in {"read", "read_masks"} /\ ~call.boundless /\ call.window # None
    /\ call.out = None
    /\ RowsIn(Get(call.window)) = 0 \/ ColsIn(Get(call.window)) = 0
    /\ Indexes(call.indexes) # <<>>
    /\ Range(Indexes(call.indexes)) \subseteq (1 .. count) \ (nullBands \cup nullMasks)
C23_OutsideWindow ==
    OutsideRequest
    => /\ ret.exc = ""
       /\ call.out_shape = None => ret.arr.h = 0 \/ ret.arr.w = 0
       /\ ncalls = <<>>

\* C24: a boundless read of a window whose stops are not below its starts
\* returns, when it is given no out and no out_shape, an array of the
\* unclipped shape (len(indexes), row_stop - row_start, col_stop - col_start);
\* the rectangle it hands to the native layer lies within the dataset, and
\* within the requested window when it has both rows and columns
BoundlessRequest == call.op = "read" /\ call.boundless /\ call.window # None
NaturalShape ==
    (call.out = None /\ call.out_shape = None /\ ret.exc = "")
    => /\ ret.arr.n = Len(Indexes(call.indexes))
       /\ ret.arr.h = WinH(call.window) /\ ret.arr.w = WinW(call.window)
OverlapInDataset(c) ==
    /\ 0 <= c.yoff /\ 0 <= c.height /\ c.yoff + c.height <= Height
    /\ 0 <= c.xoff /\ 0 <= c.width /\ c.xoff + c.width <= Width
OverlapInWindow(c, window) ==
    (c.height > 0 /\ c.width > 0)
    => /\ window[1][1] <= c.yoff /\ c.yoff + c.height <= window[1][2]
       /\ window[2][1] <= c.xoff /\ c.xoff + c.width <= window[2][2]
C24_BoundlessGeometry ==
    BoundlessRequest
    => /\ NaturalShape
       /\ \A k \in DOMAIN ncalls :
             OverlapInDataset(ncalls[k]) /\ OverlapInWindow(ncalls[k], Get(call.window))
C24_Witness ==
    /\ BoundlessRequest /\ call.out = None /\ call.out_shape = None /\ ret.exc = ""
    /\ Get(call.window)[1][1] < 0 /\ Get(call.window)[1][2] > Height
    /\ Get(call.window)[2][1] > 0 /\ Get(call.window)[2][2] > Width
    /\ ret.arr.h = Height + 2 * Margin
    /\ \E k \in DOMAIN ncalls : ncalls[k].height = Height /\ ncalls[k].width > 0

\* C25: in a call of read, read_masks, dataset_mask or write a native
\* transfer that returned a failure is the last native call of the call and
\* the call ends with an error; read and write make at most one data
\* transfer (GDALDatasetRasterIO) per call
FailedTransfer(k) ==
    /\ ncalls[k].fn \in {"GDALRasterIO", "GDALDatasetRasterIO"}
    /\ ncalls[k].rv # 0
C25_NoRetry ==
    call.op \in {"read", "read_masks", "dataset_mask", "write"}
    => /\ \A k \in DOMAIN ncalls : FailedTransfer(k) => k = Len(ncalls) /\ ret.exc # ""
       /\ call.op \in {"read", "write"}
             => Cardinality({k \in DOMAIN ncalls : ncalls[k].fn = "GDALDatasetRasterIO"}) <= 1
C25_Witness ==
    /\ call.op = "dataset_mask" /\ count >= 2 /\ ~HasBit(mask_flags[1], 2)
    /\ Len(ncalls) = 1 /\ FailedTransfer(1) /\ ret.exc # ""

\* C26: a boundless read_masks of existing bands, with no out and no
\* out_shape, whose window shares rows and columns with the dataset returns
\* the validity bytes of the shared rectangle at rows max(0, -row_start) and
\* columns max(0, -col_start) of its result, where read places the data,
\* and 0 in every other cell
BoundlessMasks ==
    /\ call.op = "read_masks" /\ call.boundless /\ call.window # None
    /\ call.out = None /\ call.out_shape = None
    /\ RowsIn(Get(call.window)) > 0 /\ ColsIn(Get(call.window)) > 0
    /\ Indexes(call.indexes) # <<>>
    /\ Range(Indexes(call.indexes)) \subseteq (1 .. count) \ (nullBands \cup nullMasks)
    /\ \A k \in DOMAIN ncalls : ncalls[k].rv = 0
ValidityAt(b, r, c) ==
    MaskPlane(pixels, b)[<<Max(Get(call.window)[1][1], 0) + r - RowOff(Get(call.window)),
                           Max(Get(call.window)[2][1], 0) + c - ColOff(Get(call.window))>>]
C26_MasksPlacedAsData ==
    BoundlessMasks
    => /\ ret.exc = ""
       /\ \A p \in DOMAIN ret.arr.d :
             ret.arr.d[p] = IF InBlock(Get(call.window), p[2], p[3])
                            THEN ValidityAt(BandOf(p[1]), p[2], p[3])
                            ELSE Zero

\* C27: when a call of write ends, with or without an error, the caller's
\* source array holds what it held when the call began, whatever the
\* encoding
C27_SrcUntouched ==
    call.op = "write" => caller = Some(call.src.arr)

\* C28: on a dataset that holds no native handle a call of read,
\* read_masks or write ends with an error and makes no native call, whatever
\* its window, boundless and masked arguments
C28_ClosedRaises ==
    (~hds /\ call.op \in {"read", "read_masks", "write"})
    => ret.exc # "" /\ ncalls = <<>>

\* C29: after __init__ and after start, whether start returned or raised,
\* the writer is marked closed exactly when it holds no native handle, and
\* a start that raised leaves it closed
C29_ClosedIffNoHandle ==
    call.op \in {"none", "start"}
    => /\ closed <=> ~hds
       /\ (call.op = "start" /\ ret.exc # "") => closed

\* C30: when read or read_masks is called with an int index and a 2-D out
\* array and returns normally or rejects the request (band index out of
\* range, mixed encodings, out given with out_shape, encoding mismatch), the
\* caller's array is 2-D when the call ends
RequestRejected ==
    ret.exc \in {"IndexError: band index out of range",
                 "ValueError: more than one 'dtype' found",
                 "ValueError: out and out_shape are exclusive",
                 "ValueError: the array's dtype does not match the file's dtype",
                 "ValueError: the out array's dtype does not match 'uint8'"}
ScalarInto2D ==
    /\ call.op \in {"read", "read_masks"} /\ call.indexes.kind = "int"
    /\ call.out # None /\ Get(call.out).arr.ndim = 2
C30_OutShapeRestored ==
    (ScalarInto2D /\ (ret.exc = "" \/ RequestRejected))
    => caller # None /\ Get(caller).ndim = 2

====
